---- MODULE Spec2Model ----
(***************************************************************************)
(* g0s: host-telemetry agents streaming metrics to a server.               *)
(*                                                                         *)
(* The module holds four state machines over one set of variables:         *)
(*   SpecAgent  - the agent's health monitor (healthCheckLoop/watchHealth) *)
(*                running beside the tick loop (runMetricsCollection,      *)
(*                connectWithRetry, collectAndSendMetrics);                *)
(*   SpecStore  - one call of a per-family sink's Store (sendWithRetry);   *)
(*   SpecServer - one server-side metrics stream (StreamMetrics) with the  *)
(*                sink fan-out (StoreAllMetrics) and the shutdown notifier;*)
(*   SpecWatch  - the server's health Watch sessions and graceful shutdown.*)
(* Each specification moves its own variables and leaves the others in     *)
(* their initial state.                                                    *)
(***************************************************************************)
EXTENDS Integers, Sequences, FiniteSets, TLC

(* ------------------------------ bounds --------------------------------- *)
\* successful Watch opens of the agent's health monitor
MaxWatchOpens == 2
\* successful StreamMetrics opens of the agent
MaxStreams == 2
\* payloads the agent hands to Send
MaxSent == 2
\* consecutive failed StreamMetrics opens inside one connectWithRetry call
MaxRetry == 2
\* lines handed to one Store call
MaxLines == 2
\* payloads a client sends on one metrics stream
MaxPayloads == 2
\* samples in each repeated family (cpu, disk, network, docker) of a payload
MaxSamples == 1
\* Watch calls the server gets
MaxSessions == 3
\* calls of watchHealth by the agent's health loop
MaxBackoffs == 6
\* largest value of a container's cumulative CPU counters
MaxCounter == 3
\* largest CPU count: online CPUs and per-CPU usage entries of a container,
\* physical cores and per-core timing entries of the host
MaxCores == 3
\* entries of cpu.Info()
MaxInfo == 1
\* length of an image reference
MaxImageLen == 5
\* containers that ContainerList returns
MaxContainers == 4
\* checks of the HTTP-polling health service
MaxChecks == 3
\* container counts handed to calculateOptimalWorkers: -MaxCount..MaxCount
MaxCount == 60
\* top-level calls of CPUCollector.Collect
MaxCollects == 3
\* failed opens within one connectWithRetry call
MaxAttempts == 6
\* goroutines calling getCachedStaticData
MaxCallers == 3
\* calls of getCachedStaticData in all
MaxCalls == 4
\* the clock of the static cache runs from 0 to MaxClock
MaxClock == 3
\* watchHealth calls before the cancellation, where termination is checked
MaxLiveCalls == 2

(* ----------------------- agent: program constants ---------------------- *)
\* healthcheck.go:38, backoffDelay := 2 * time.Second (seconds)
baseBackoff == 2
\* healthcheck.go:39, maxBackoff := 30 * time.Second (seconds)
maxBackoff == 30

\* a nil error
Nil == "nil"

VARIABLES
    \* ---- agent (SpecAgent) ----
    actx,           \* the agent's shutdown context is cancelled
    healthy,        \* Service.healthy (atomic.Bool)
    hpc,            \* position of the healthCheckLoop goroutine
    backoffDelay,   \* healthCheckLoop's backoffDelay, in seconds
    watchOpens,     \* number of successful Watch opens so far
    hslept,         \* the backoff sleeps healthCheckLoop started, in order
    mpc,            \* position of runMetricsCollection
    isHealthy,      \* runMetricsCollection's local isHealthy of the current tick
    lastHealthy,    \* runMetricsCollection's local lastHealthy
    stream,         \* runMetricsCollection's local stream: 0 is nil, n > 0 the n-th stream opened
    nStreams,       \* number of successful StreamMetrics opens so far
    retryCount,     \* connectWithRetry's retryCount
    rdelay,         \* connectWithRetry's delay, in seconds (NegativeDelay below zero)
    nCollected,     \* payloads assembled so far
    nSent,          \* payloads handed to stream.Send so far
    sends,          \* the Send calls so far, in order: payload, stream, outcome
    closed,         \* the streams whose send side the agent closed
    heldAtDrop,     \* the streams held when the healthy flag went from true to false
    mret            \* what runMetricsCollection returned

VARIABLES
    \* ---- one Store call of a sink (SpecStore) ----
    stpc,           \* position of the Store call
    nLines,         \* len(data) of the call
    sw,             \* sendWithRetry's locals: attempt, lastErr
    posts,          \* the responses to the HTTP POSTs issued so far, in order
    slept,          \* the delays of the sleeps before the attempts so far (ms)
    sret            \* the value Store returned

VARIABLES
    \* ---- one server-side metrics stream (SpecServer) ----
    mctx,           \* the metric service's ctx is cancelled (NotifyShutdown)
    strmCtx,        \* stream.Context() is done (client cancel, broken transport, handler returned)
    hcancel,        \* the handler's cancel() of its derived ctx was called
    spc,            \* position of the StreamMetrics handler
    npc,            \* position of the handler's shutdown-notifier goroutine
    inflight,       \* payloads the client sent that Recv has not returned yet
    nClientSent,    \* number of payloads the client sent
    clientClosed,   \* the client closed its send side
    cur,            \* the handler's local metrics: the payload in hand, 0 for none
    sink,           \* StoreAllMetrics: state of the goroutine of each store
    errorsCh,       \* StoreAllMetrics: number of errors in the buffered channel
    logged,         \* number of errors the last StoreAllMetrics call logged
    fret,           \* what the last StoreAllMetrics call returned
    fanned,         \* ids of the payloads whose fan-out was started, in order
    out,            \* responses sent on the stream, in order
    hret            \* the status the handler returned with

VARIABLES
    \* ---- server health Watch sessions and shutdown (SpecWatch) ----
    wctx,           \* the health service's ctx is cancelled (NotifyShutdown)
    grpcState,      \* the gRPC server: serving, stopping (in GracefulStop), stopped
    clients,        \* HealthCheckService.clients: the ids in the session map
    wpc,            \* position of each Watch call
    cctx,           \* the Watch stream's context is cancelled (client gone)
    wsent,          \* statuses delivered on each Watch stream, in order
    nsCalls,        \* sendStatus(NOT_SERVING) calls made by each Watch call
    wret,           \* what each Watch call returned
    atShutdown,     \* the ids in the session map when NotifyShutdown was called
    stopCtx         \* the ctx given to Server.Stop has expired

VARIABLES
    \* ---- one call of collectAndSendMetrics (SpecTick) ----
    tpc,            \* position of the call
    hasDocker,      \* c.docker != nil
    gor,            \* the goroutines of the cpu, disk and docker sources
    outc,           \* what each source's Collect returned: none yet, ok, fail
    slots,          \* result.<family>Metrics: zero value or collected data
    errs,           \* result.errors, in order
    tsent,          \* the payloads handed to stream.Send (at most one)
    tret            \* what the call returned

VARIABLES
    \* ---- the agent's collectors (SpecCpuPct, SpecImage, SpecCpuList) ----
    pctCall,        \* the call of calculateCPUPercentage made: its input and result
    imgCall,        \* the call of parseImageName made: its input and results
    cpuWarm,        \* CPUCollector.lastCollectTime is set
    cpuCall,        \* the call of CPUCollector.Collect made: its input and result
    payloadCpu      \* the Cpu list of the payload built after that call

VARIABLES
    \* ---- one call of DockerCollector.Collect (SpecDocker) ----
    dpc,            \* position of Collect
    dN,             \* len(containers)
    dctx,           \* the 10-second context of the call has expired
    pushed,         \* containers sent on the jobs channel so far
    jobs,           \* the jobs channel: the containers waiting in it
    jobsClosed,     \* close(jobs) was called
    wst,            \* position of each worker goroutine
    whold,          \* the container each worker took from jobs, 0 for none
    resultsCh,      \* the results channel: the results waiting in it
    produced,       \* every result ever sent on the results channel, in order
    nCloses,        \* number of close(results) calls
    exitedAtClose,  \* the workers that had exited when results was closed
    cpc,            \* position of the goroutine that closes results
    dmetrics,       \* Collect's local metrics: the containers of its samples
    errorCount,     \* Collect's local errorCount
    dret            \* what Collect returned

VARIABLES
    \* ---- the HTTP-polling health service (SpecPoll) ----
    lastCheck,      \* Service.lastCheck
    ppc,            \* position of check: "idle", or "got" once Get has returned
    pending,        \* the answer Get gave to the check in flight
    stored,         \* the values the checks stored in lastCheck, in order
    lastResp,       \* the answer to the most recent check that has stored
    seen            \* the last IsHealthy call: what it returned, and when

VARIABLES
    \* ---- one call of Manager.StoreAllMetrics (SpecFanOut) ----
    fpc,            \* position of StoreAllMetrics: "idle", "loop", "wait", "returned"
    fpay,           \* the payload: its timestamp in ns, its samples
    fts,            \* the local timestamp
    nSpawned,       \* goroutines the loop has started
    task,           \* position of the goroutine of each store
    flines,         \* each goroutine's local lines: how many Format returned
    fcalls,         \* the calls made on each store, in order
    fErrors,        \* number of errors buffered in the errors channel
    fLogged,        \* number of errors logged
    fout            \* what StoreAllMetrics returned

VARIABLES
    \* ---- the static-data cache of a collector (SpecCache) ----
    cnow,           \* time.Now(), in cache periods' units
    cacheExpiry,    \* c.cacheExpiry (the zero time is 0)
    cachedInfo,     \* c.cachedStaticInfo: 0 for nil, else the fetch that gave it
    readers,        \* c.mu: the goroutines holding the read lock
    writer,         \* c.mu: the goroutine holding the write lock, 0 for none
    cachePc,        \* position of each caller in getCachedStaticData
    cacheRet,       \* what the last call of each caller returned, and by which path
    nCalls,         \* calls of getCachedStaticData begun
    fetches         \* the calls of host.Info / cpu.Info, in order

VARIABLES
    \* ---- one call of connectWithRetry (SpecConnect) ----
    cwPc,           \* position: "open", "sleep", "returned"
    cwCtx,          \* ctx is cancelled
    cwCount,        \* retryCount
    cwDelay,        \* delay, in seconds (NegativeDelay below zero)
    cwSleep,        \* jitter, the duration given to time.After, in ms
    cwRet           \* what connectWithRetry returned

VARIABLES
    \* ---- CPUCollector.Collect, pass by pass (SpecCpuWarm) ----
    ccPc,           \* position: "idle", "static", "sample", "sleep", "crashed"
    ccDepth,        \* Collect frames on the stack
    ccNow,          \* time.Now()
    ccLast,         \* lastTotalTimes, lastCPUTimes, lastCollectTime (0: zero)
    ccTaken,        \* calls of cpu.Times(false) so far: the id of the last sample
    ccCur,          \* the top-level call in progress
    ccRes           \* the last top-level call that returned, and its result

VARIABLES
    \* ---- calculateOptimalWorkers (SpecWorkers) ----
    owCall          \* the call made: its argument and its result

VARIABLES
    \* ---- a payload with absent parts on the server (SpecPayload) ----
    pvPc,           \* position of the stream handler
    pvPay,          \* the payload in hand: which parts are present, samples per family
    pvFormatted,    \* the stores whose Format has returned for the payload
    pvAlive,        \* the server process runs
    pvServed        \* payloads acknowledged since the start

agentVars == <<actx, healthy, hpc, backoffDelay, watchOpens, hslept, mpc, isHealthy,
               lastHealthy, stream, nStreams, retryCount, rdelay, nCollected, nSent,
               sends, closed, heldAtDrop, mret>>
storeVars == <<stpc, nLines, sw, posts, slept, sret>>

serverVars == <<mctx, strmCtx, hcancel, spc, npc, inflight, nClientSent,
                clientClosed, cur, sink, errorsCh, logged, fret, fanned, out, hret>>

watchVars == <<wctx, grpcState, clients, wpc, cctx, wsent, nsCalls, wret,
               atShutdown, stopCtx>>

tickVars == <<tpc, hasDocker, gor, outc, slots, errs, tsent, tret>>

collVars == <<pctCall, imgCall, cpuWarm, cpuCall, payloadCpu>>

dockVars == <<dpc, dN, dctx, pushed, jobs, jobsClosed, wst, whold, resultsCh,
              produced, nCloses, exitedAtClose, cpc, dmetrics, errorCount, dret>>

pollVars == <<lastCheck, ppc, pending, stored, lastResp, seen>>

cacheVars == <<cnow, cacheExpiry, cachedInfo, readers, writer, cachePc, cacheRet,
               nCalls, fetches>>

payVars == <<pvPc, pvPay, pvFormatted, pvAlive, pvServed>>

warmVars == <<ccPc, ccDepth, ccNow, ccLast, ccTaken, ccCur, ccRes>>

connVars == <<cwPc, cwCtx, cwCount, cwDelay, cwSleep, cwRet>>

fanVars == <<fpc, fpay, fts, nSpawned, task, flines, fcalls, fErrors, fLogged,
             fout>>

vars == <<agentVars, storeVars, serverVars, watchVars, tickVars, collVars,
          dockVars, pollVars, fanVars, cacheVars, connVars, warmVars, owCall,
          payVars>>

notWorkersVars == <<agentVars, storeVars, serverVars, watchVars, tickVars, collVars,
                   dockVars, pollVars, fanVars, cacheVars, connVars, warmVars,
                   payVars>>
notPayVars == <<agentVars, storeVars, serverVars, watchVars, tickVars, collVars,
               dockVars, pollVars, fanVars, cacheVars, connVars, warmVars, owCall>>

\* what the actions of one state machine leave alone
notAgentVars == <<storeVars, serverVars, watchVars, tickVars, collVars, dockVars,
                 pollVars, fanVars, cacheVars,
                 connVars, warmVars, owCall, payVars>>
notStoreVars == <<agentVars, serverVars, watchVars, tickVars, collVars, dockVars,
                 pollVars, fanVars, cacheVars,
                 connVars, warmVars, owCall, payVars>>
notServerVars == <<agentVars, storeVars, watchVars, tickVars, collVars, dockVars,
                 pollVars, fanVars, cacheVars,
                 connVars, warmVars, owCall, payVars>>
notWatchVars == <<agentVars, storeVars, serverVars, tickVars, collVars, dockVars,
                 pollVars, fanVars, cacheVars,
                 connVars, warmVars, owCall, payVars>>
notTickVars == <<agentVars, storeVars, serverVars, watchVars, collVars, dockVars,
                 pollVars, fanVars, cacheVars,
                 connVars, warmVars, owCall, payVars>>
notCollVars == <<agentVars, storeVars, serverVars, watchVars, tickVars, dockVars,
                 pollVars, fanVars, cacheVars,
                 connVars, warmVars, owCall, payVars>>
notDockVars == <<agentVars, storeVars, serverVars, watchVars, tickVars, collVars,
                pollVars, fanVars,
                cacheVars, connVars,
                warmVars, owCall, payVars>>
notPollVars == <<agentVars, storeVars, serverVars, watchVars, tickVars, collVars,
                dockVars, fanVars,
                cacheVars, connVars,
                warmVars, owCall, payVars>>
notFanVars == <<agentVars, storeVars, serverVars, watchVars, tickVars, collVars,
               dockVars, pollVars,
                cacheVars, connVars,
                warmVars, owCall, payVars>>
notCacheVars == <<agentVars, storeVars, serverVars, watchVars, tickVars, collVars,
                 dockVars, pollVars, fanVars, connVars, warmVars,
                owCall, payVars>>
notConnVars == <<agentVars, storeVars, serverVars, watchVars, tickVars, collVars,
                dockVars, pollVars, fanVars, cacheVars, warmVars,
                owCall, payVars>>
notWarmVars == <<agentVars, storeVars, serverVars, watchVars, tickVars, collVars,
                dockVars, pollVars, fanVars, cacheVars, connVars,
                owCall, payVars>>

(***************************************************************************)
(* Agent health monitor: internal/agent/healthcheck/healthcheck.go         *)
(***************************************************************************)

\* New(): the zero value of atomic.Bool is false; healthCheckLoop starts with
\* the base delay.
InitAgent ==
    /\ actx = FALSE
    /\ healthy = FALSE
    /\ hpc = "select"
    /\ backoffDelay = baseBackoff
    /\ watchOpens = 0
    /\ hslept = <<>>
    /\ mpc = "select"
    /\ isHealthy = FALSE
    /\ lastHealthy = FALSE
    /\ stream = 0
    /\ nStreams = 0
    /\ retryCount = 0
    /\ rdelay = 0
    /\ nCollected = 0
    /\ nSent = 0
    /\ sends = <<>>
    /\ closed = {}
    /\ heldAtDrop = {}
    /\ mret = "none"

healthVars == <<healthy, hpc, backoffDelay, watchOpens, hslept>>
metricVars == <<mpc, isHealthy, lastHealthy, stream, nStreams, retryCount, rdelay,
                nCollected, nSent, sends, closed, heldAtDrop, mret>>

\* A mutant of CtxDone: the select waits on a context that is never done.
CtxDone_Never(cancelled) == FALSE

\* A select's case <-ctx.Done() is ready once the agent's context has been
\* cancelled.
CtxDone(cancelled) == cancelled

\* runAgent's signal goroutine: cancel() on SIGINT/SIGTERM.
AgentCancel ==
    /\ ~actx
    /\ actx' = TRUE
    /\ UNCHANGED <<healthVars, metricVars>>
    /\ UNCHANGED notAgentVars

\* healthCheckLoop, select at the top of the loop: ctx.Done() is taken when
\* the context is cancelled ...
HSelectDone ==
    /\ hpc = "select"
    /\ CtxDone(actx)
    /\ hpc' = "returned"
    /\ UNCHANGED <<actx, healthy, backoffDelay, watchOpens, hslept, metricVars>>
    /\ UNCHANGED notAgentVars

\* ... and the default branch (the call of watchHealth) otherwise.
HSelectDefault ==
    /\ hpc = "select"
    /\ ~actx
    /\ Len(hslept) < MaxBackoffs
    /\ hpc' = "call"
    /\ UNCHANGED <<actx, healthy, backoffDelay, watchOpens, hslept, metricVars>>
    /\ UNCHANGED notAgentVars

\* watchHealth: client.Watch fails (server unreachable, or the context was
\* cancelled meanwhile); watchHealth returns false.
WatchOpenFail ==
    /\ hpc = "call"
    /\ hpc' = "failed"
    /\ UNCHANGED <<actx, healthy, backoffDelay, watchOpens, hslept, metricVars>>
    /\ UNCHANGED notAgentVars

\* watchHealth: client.Watch succeeds.
WatchOpenOk ==
    /\ hpc = "call"
    /\ ~actx
    /\ watchOpens < MaxWatchOpens
    /\ watchOpens' = watchOpens + 1
    /\ hpc' = "opened"
    /\ UNCHANGED <<actx, healthy, backoffDelay, hslept, metricVars>>
    /\ UNCHANGED notAgentVars

\* The value watchHealth stores right after a successful open (line 88).
HealthyAfterOpen == TRUE

\* watchHealth: s.setHealthy(true) after the open.
SetHealthyTrue ==
    /\ hpc = "opened"
    /\ healthy' = HealthyAfterOpen
    /\ hpc' = "recv"
    /\ UNCHANGED <<actx, backoffDelay, watchOpens, hslept, metricVars>>
    /\ UNCHANGED notAgentVars

\* watchHealth's Recv loop: a received message is dropped and the loop calls
\* Recv again (no state changes); Recv returning an error (stream closed by
\* the server, transport failure, cancelled context) leaves the loop.
WatchRecvErr ==
    /\ hpc = "recv"
    /\ hpc' = "deferred"
    /\ UNCHANGED <<actx, healthy, backoffDelay, watchOpens, hslept, metricVars>>
    /\ UNCHANGED notAgentVars

\* A mutant of DeferredHealthy: the deferred reset is missing.
DeferredHealthy_Missing == healthy

\* The value watchHealth's deferred function stores on return (line 92).
DeferredHealthy == FALSE

\* watchHealth returns false; its deferred function runs.
WatchDefer ==
    /\ hpc = "deferred"
    /\ healthy' = DeferredHealthy
    /\ hpc' = "closed"
    /\ heldAtDrop' = IF healthy /\ ~healthy' /\ stream # 0
                     THEN heldAtDrop \cup {stream} ELSE heldAtDrop
    /\ UNCHANGED <<actx, backoffDelay, watchOpens, hslept, mpc, isHealthy,
                   lastHealthy, stream, nStreams, retryCount, rdelay,
                   nCollected, nSent, sends, closed, mret>>
    /\ UNCHANGED notAgentVars

\* What watchHealth returns: false when the open fails (line 85) and false
\* when the Recv loop ends (line 101); opened tells which of the two it was.
WatchHealthResult(opened) == FALSE

\* healthCheckLoop after watchHealth returned (lines 46-59).  On true:
\* backoffDelay is reset to the base and the interval select is entered.  On
\* false: s.setHealthy(false) and the backoff select is entered with
\* backoffDelay.  watchHealth returns false on every path, so the else
\* branch is the one taken.
HSetUnhealthy ==
    /\ hpc \in {"failed", "closed"}
    /\ IF WatchHealthResult(hpc = "closed")
       THEN /\ backoffDelay' = baseBackoff
            /\ hpc' = "interval"
            /\ UNCHANGED <<healthy, hslept>>
       ELSE /\ healthy' = FALSE
            /\ hslept' = Append(hslept, [d |-> backoffDelay, kind |-> hpc,
                                         opens |-> watchOpens])
            /\ hpc' = "backoff"
            /\ UNCHANGED backoffDelay
    /\ UNCHANGED <<actx, watchOpens, metricVars>>
    /\ UNCHANGED notAgentVars

\* healthCheckLoop, the select of either branch: ctx.Done().
HBackoffDone ==
    /\ hpc \in {"backoff", "interval"}
    /\ CtxDone(actx)
    /\ hpc' = "returned"
    /\ UNCHANGED <<actx, healthy, backoffDelay, watchOpens, hslept, metricVars>>
    /\ UNCHANGED notAgentVars

\* A mutant of NextBackoff: the doubled delay is not capped.
NextBackoff_NoCap(d) == d * 2

\* backoffDelay *= 2, capped at maxBackoff.
NextBackoff(d) == IF d * 2 > maxBackoff THEN maxBackoff ELSE d * 2

\* healthCheckLoop: time.After fires.  After the backoff sleep the delay is
\* doubled (lines 68-71); after the interval sleep it is left alone.
HBackoffElapsed ==
    /\ hpc \in {"backoff", "interval"}
    /\ backoffDelay' = IF hpc = "backoff" THEN NextBackoff(backoffDelay)
                       ELSE backoffDelay
    /\ hpc' = "select"
    /\ UNCHANGED <<actx, healthy, watchOpens, hslept, metricVars>>
    /\ UNCHANGED notAgentVars

HealthNext ==
    \/ HSelectDone
    \/ HSelectDefault
    \/ WatchOpenFail
    \/ WatchOpenOk
    \/ SetHealthyTrue
    \/ WatchRecvErr
    \/ WatchDefer
    \/ HSetUnhealthy
    \/ HBackoffDone
    \/ HBackoffElapsed

(***************************************************************************)
(* Agent tick loop: runMetricsCollection, connectWithRetry,                *)
(* collectAndSendMetrics (cmd/agent main)                                  *)
(***************************************************************************)

\* IsHealthy(): one atomic load.
IsHealthy == healthy

\* A mutant of CloseSendResult: closing the send side reports an error.
CloseSendResult_Err == "close error"

\* What stream.CloseSend() returns: the send side of a gRPC client stream is
\* closed without an error being reported.
CloseSendResult == Nil

\* The streams whose send side is closed once CloseSend was called on st.
ClosedWith(st) == IF st # 0 THEN closed \cup {st} ELSE closed

\* runMetricsCollection, case <-ctx.Done() (lines 170-177): CloseSend on a
\* held stream, its error returned; else return ctx.Err().
MCtxDone ==
    /\ mpc = "select"
    /\ CtxDone(actx)
    /\ mpc' = "returned"
    /\ closed' = ClosedWith(stream)
    /\ mret' = IF stream # 0 /\ CloseSendResult # Nil THEN CloseSendResult
               ELSE "context canceled"
    /\ UNCHANGED <<rdelay, actx, healthVars, isHealthy, lastHealthy, stream, nStreams,
                   retryCount, nCollected, nSent, sends, heldAtDrop>>
    /\ UNCHANGED notAgentVars

\* A mutant of TickSkips: the unhealthy tick is not skipped.
TickSkips_Never(h) == FALSE

\* runMetricsCollection lines 198-201: if !isHealthy { continue }.
TickSkips(h) == ~h

\* A mutant of StreamAfterTransition: the stream is kept.
StreamAfterTransition_Kept(h) == stream

\* The stream held after the health-transition block (lines 182-196): a
\* change to unhealthy closes the send side and drops the stream.
StreamAfterTransition(h) ==
    IF h # lastHealthy /\ ~h THEN 0 ELSE stream

\* The transition block calls CloseSend on a held stream when the flag read
\* changed to unhealthy (lines 185-191).
TransitionCloses(h) == h # lastHealthy /\ ~h /\ stream # 0

\* runMetricsCollection, case <-ticker.C up to the stream check: read the
\* flag once, handle a transition (a CloseSend error is returned), skip the
\* tick when unhealthy, else go on to connectWithRetry (no stream held) or to
\* collectAndSendMetrics.  The ticker fires for a tick that collects only
\* while fewer than MaxSent payloads were assembled.
Tick ==
    /\ mpc = "select"
    /\ TickSkips(IsHealthy) \/ nCollected < MaxSent
    /\ LET h == IsHealthy
           s == StreamAfterTransition(h)
       IN  /\ isHealthy' = h
           /\ closed' = IF TransitionCloses(h) THEN ClosedWith(stream) ELSE closed
           /\ retryCount' = 0
           /\ rdelay' = 0
           /\ IF TransitionCloses(h) /\ CloseSendResult # Nil
              THEN /\ mpc' = "returned"
                   /\ mret' = CloseSendResult
                   /\ UNCHANGED <<lastHealthy, stream>>
              ELSE /\ lastHealthy' = h
                   /\ stream' = s
                   /\ mpc' = IF TickSkips(h) THEN "select"
                             ELSE IF s = 0 THEN "connect" ELSE "collect"
                   /\ UNCHANGED mret
    /\ UNCHANGED <<actx, healthVars, nStreams, nCollected, nSent, sends,
                   heldAtDrop>>
    /\ UNCHANGED notAgentVars

\* connectWithRetry's backoff.Config: BaseDelay 1 s, Multiplier
\* _backoffMultiplier = 2.0, MaxDelay _maxBackoffDelay = 60 s.
connectBaseDelay == 1
backoffMultiplier == 2
maxBackoffDelay == 60

\* A time.Duration below zero: the sleep it is given to ends at once.
NegativeDelay == -1

\* The int64 product BaseDelay * Duration(float64(BaseDelay) * retryCount *
\* Multiplier) is 10^9 * (10^9 * n * 2) = n * 2 * 10^18 ns, taken modulo
\* 2^64.  TurnPerSecond is 10^18 / 2^64 = 0.054210108..., in billionths;
\* ProductTurns is the product as a multiple of 2^64 ns, in billionths.
Billion == 1000000000
TurnPerSecond == 54210108
ProductTurns(n) ==
    connectBaseDelay * connectBaseDelay * n * backoffMultiplier * TurnPerSecond

\* A billionth of 2^64 ns is 18.4 s; here rounded down.
SecondsPerBillionth == 18

\* connectWithRetry lines 247-250: the delay after the n-th failed open, in
\* seconds.  The product wraps to a negative int64 when it falls in the upper
\* half of a turn; a positive product above MaxDelay is cut to MaxDelay.
connectDelay(n) ==
    LET w == ProductTurns(n) % Billion
    IN  IF 2 * w >= Billion THEN NegativeDelay
        ELSE IF w > maxBackoffDelay \div SecondsPerBillionth THEN maxBackoffDelay
        ELSE w * SecondsPerBillionth

\* connectWithRetry: client.StreamMetrics(ctx) succeeds; the stream is kept.
ConnectOk ==
    /\ mpc = "connect"
    /\ ~actx
    /\ nStreams < MaxStreams
    /\ nStreams' = nStreams + 1
    /\ stream' = nStreams + 1
    /\ mpc' = "collect"
    /\ UNCHANGED <<rdelay, actx, healthVars, isHealthy, lastHealthy, retryCount,
                   nCollected, nSent, sends, closed, heldAtDrop, mret>>
    /\ UNCHANGED notAgentVars

\* connectWithRetry: client.StreamMetrics(ctx) fails; retryCount++ and sleep.
\* With the context cancelled the open fails whatever the count.
ConnectFail ==
    /\ mpc = "connect"
    /\ retryCount < MaxRetry \/ actx
    /\ retryCount' = retryCount + 1
    /\ rdelay' = connectDelay(retryCount + 1)
    /\ mpc' = "retrysleep"
    /\ UNCHANGED <<actx, healthVars, isHealthy, lastHealthy, stream, nStreams,
                   nCollected, nSent, sends, closed, heldAtDrop, mret>>
    /\ UNCHANGED notAgentVars

\* connectWithRetry, sleep select: time.After(jitter) fires, next attempt.
RetryElapsed ==
    /\ mpc = "retrysleep"
    /\ retryCount <= MaxRetry
    /\ mpc' = "connect"
    /\ UNCHANGED <<rdelay, actx, healthVars, isHealthy, lastHealthy, stream, nStreams,
                   retryCount, nCollected, nSent, sends, closed, heldAtDrop,
                   mret>>
    /\ UNCHANGED notAgentVars

\* connectWithRetry, sleep select: ctx.Done(); it returns ctx.Err(), which is
\* context.Canceled, and runMetricsCollection returns it (lines 205-208).
RetryCtxDone ==
    /\ mpc = "retrysleep"
    /\ CtxDone(actx)
    /\ mpc' = "returned"
    /\ mret' = "context canceled"
    /\ UNCHANGED <<rdelay, actx, healthVars, isHealthy, lastHealthy, stream, nStreams,
                   retryCount, nCollected, nSent, sends, closed, heldAtDrop>>
    /\ UNCHANGED notAgentVars

\* collectAndSendMetrics up to the payload: every source's Collect has been
\* called and the goroutines joined (wg.Wait), the payload is assembled.
Collect ==
    /\ mpc = "collect"
    /\ nCollected < MaxSent
    /\ nCollected' = nCollected + 1
    /\ mpc' = "send"
    /\ UNCHANGED <<rdelay, actx, healthVars, isHealthy, lastHealthy, stream, nStreams,
                   retryCount, nSent, sends, closed, heldAtDrop, mret>>
    /\ UNCHANGED notAgentVars

\* One Send call: the payload in hand (the last one assembled), on the stream
\* held.
SendRecord(ok) ==
    [payload |-> nCollected, stream |-> stream, ok |-> ok,
     dropped |-> stream \in heldAtDrop, onClosed |-> stream \in closed]

\* stream.Send(pbMetrics) succeeds.
SendOk ==
    /\ mpc = "send"
    /\ nSent' = nSent + 1
    /\ sends' = Append(sends, SendRecord(TRUE))
    /\ mpc' = "recv"
    /\ UNCHANGED <<rdelay, actx, healthVars, isHealthy, lastHealthy, stream, nStreams,
                   retryCount, nCollected, closed, heldAtDrop, mret>>
    /\ UNCHANGED notAgentVars

\* errors.Is(err, context.Canceled) for the error of a failed Send or Recv
\* (lines 217-219): the stream reports gRPC status errors and io.EOF, which
\* are not context.Canceled.
ErrIsCanceled == FALSE

\* Lines 221-225: after a failure the stream is dropped.
StreamAfterFailure(st) == 0

\* A mutant of PcAfterFailure: the payload is handed to Send again.
PcAfterFailure_Resend == "send"

\* After a failure the loop goes back to its select: the payload is gone with
\* collectAndSendMetrics' locals.
PcAfterFailure == "select"

\* runMetricsCollection lines 216-226, collectAndSendMetrics returned an
\* error: return on context.Canceled; else CloseSend (its error returned) and
\* stream = nil.
AfterFailure ==
    IF ErrIsCanceled
    THEN /\ mpc' = "returned"
         /\ mret' = "context canceled"
         /\ UNCHANGED <<stream, closed>>
    ELSE /\ closed' = ClosedWith(stream)
         /\ IF CloseSendResult # Nil
            THEN /\ mpc' = "returned"
                 /\ mret' = CloseSendResult
                 /\ UNCHANGED stream
            ELSE /\ mpc' = PcAfterFailure
                 /\ stream' = StreamAfterFailure(stream)
                 /\ UNCHANGED mret

\* stream.Send fails: collectAndSendMetrics returns the error.
SendFail ==
    /\ mpc = "send"
    /\ nSent' = nSent + 1
    /\ sends' = Append(sends, SendRecord(FALSE))
    /\ AfterFailure
    /\ UNCHANGED <<rdelay, actx, healthVars, isHealthy, lastHealthy, nStreams,
                   retryCount, nCollected, heldAtDrop>>
    /\ UNCHANGED notAgentVars

\* A mutant of StreamAfterAck: the stream is dropped after each payload.
StreamAfterAck_Dropped(st) == 0

\* Lines 216 and 227: collectAndSendMetrics returned nil; the loop goes
\* round with the stream as it is.
StreamAfterAck(st) == st

\* stream.Recv returns the server's response.
RecvOk ==
    /\ mpc = "recv"
    /\ mpc' = "select"
    /\ stream' = StreamAfterAck(stream)
    /\ UNCHANGED <<rdelay, actx, healthVars, isHealthy, lastHealthy, nStreams,
                   retryCount, nCollected, nSent, sends, closed, heldAtDrop,
                   mret>>
    /\ UNCHANGED notAgentVars

\* stream.Recv fails: as for a failed Send.
RecvFail ==
    /\ mpc = "recv"
    /\ sends' = [sends EXCEPT ![Len(sends)].ok = FALSE]
    /\ AfterFailure
    /\ UNCHANGED <<rdelay, actx, healthVars, isHealthy, lastHealthy, nStreams,
                   retryCount, nCollected, nSent, heldAtDrop>>
    /\ UNCHANGED notAgentVars

MetricsNext ==
    \/ MCtxDone
    \/ Tick
    \/ ConnectOk
    \/ ConnectFail
    \/ RetryElapsed
    \/ RetryCtxDone
    \/ Collect
    \/ SendOk
    \/ SendFail
    \/ RecvOk
    \/ RecvFail

(***************************************************************************)
(* Per-family sinks: Store and sendWithRetry                               *)
(* (internal/server/storage/metrics: metrics.go, *_store.go)               *)
(***************************************************************************)

\* metrics.go:67, const maxRetries = 3
maxRetries == 3
\* metrics.go:68, const baseDelay = 500 * time.Millisecond (ms)
baseDelay == 500

\* What one client.Post can give: a transport error (no response), or a
\* response with a status code.
TransportErr == "transport error"
Responses == {TransportErr, "200", "204", "404", "503"}

NoErr == "none"

\* A mutant of IsSuccess: 204 No Content is not taken as success.
IsSuccess_Only200(r) == r = "200"

\* metrics.go:105, StatusNoContent or StatusOK.
IsSuccess(r) == r \in {"204", "200"}

\* A mutant of MoreAttempts: the loop bound is off by one.
MoreAttempts_OffByOne(attempt) == attempt <= maxRetries

\* metrics.go:83, the loop condition attempt < maxRetries.
MoreAttempts(attempt) == attempt < maxRetries

\* metrics.go:84-91, the sleep before an attempt: none before the first,
\* attempt * baseDelay before a later one.
RetryDelay(attempt) == IF attempt > 0 THEN attempt * baseDelay ELSE 0

\* metrics.go:81, var lastErr error; attempt := 0.
\* A mutant of NoLines: the empty check is missing.
NoLines_Unchecked(n) == FALSE

\* Store: len(data) == 0.
NoLines(n) == n = 0

RetryStart == [attempt |-> 0, lastErr |-> NoErr, ret |-> "pending", cause |-> NoErr]

\* metrics.go:93-118, one iteration of the loop from the POST on, the POST
\* being answered with r (a status code, or no response): a transport error
\* and an unexpected status set lastErr and go on with attempt+1, a success
\* status returns nil.
RetryStep(st, r) ==
    IF r = TransportErr
    THEN [st EXCEPT !.attempt = st.attempt + 1, !.lastErr = TransportErr]
    ELSE IF IsSuccess(r)
    THEN [st EXCEPT !.ret = Nil]
    ELSE [st EXCEPT !.attempt = st.attempt + 1, !.lastErr = r]

\* metrics.go:121, the error returned after the loop, wrapping lastErr.
RetryGiveUp(st) == [st EXCEPT !.ret = "error", !.cause = st.lastErr]

\* sendWithRetry as a whole, rs[i] being the answer the i-th POST would get.
RECURSIVE RunRetry(_, _)
RunRetry(st, rs) ==
    IF st.ret # "pending" THEN st
    ELSE IF ~MoreAttempts(st.attempt) THEN RetryGiveUp(st)
    ELSE IF st.attempt + 1 > Len(rs) THEN RetryGiveUp(st)
    ELSE RunRetry(RetryStep(st, rs[st.attempt + 1]), rs)

\* XStore.Store: no request for empty data, else sendWithRetry's result.
StoreResult(n, rs) == IF NoLines(n) THEN Nil ELSE RunRetry(RetryStart, rs).ret

InitStore ==
    /\ stpc = "idle"
    /\ nLines = 0
    /\ sw = RetryStart
    /\ posts = <<>>
    /\ slept = <<>>
    /\ sret = "pending"

\* Store(data) is called with n lines.
StoreCall(n) ==
    /\ stpc = "idle"
    /\ nLines' = n
    /\ stpc' = "entry"
    /\ UNCHANGED <<sw, posts, slept, sret>>
    /\ UNCHANGED notStoreVars

\* Store: if len(data) == 0 { return nil }.
StoreEmpty ==
    /\ stpc = "entry"
    /\ NoLines(nLines)
    /\ sret' = Nil
    /\ stpc' = "done"
    /\ UNCHANGED <<nLines, sw, posts, slept>>
    /\ UNCHANGED notStoreVars

\* Store: the payload is joined and sendWithRetry is entered.
StoreSend ==
    /\ stpc = "entry"
    /\ ~NoLines(nLines)
    /\ sw' = RetryStart
    /\ stpc' = "loop"
    /\ UNCHANGED <<nLines, posts, slept, sret>>
    /\ UNCHANGED notStoreVars

\* sendWithRetry: one iteration: the sleep, the POST answered with r, and
\* what the loop body does with the answer.
Attempt(r) ==
    /\ stpc = "loop"
    /\ MoreAttempts(sw.attempt)
    /\ slept' = Append(slept, RetryDelay(sw.attempt))
    /\ posts' = Append(posts, r)
    /\ LET st == RetryStep(sw, r)
       IN  /\ sw' = st
           /\ sret' = st.ret
           /\ stpc' = IF st.ret = "pending" THEN "loop" ELSE "done"
    /\ UNCHANGED nLines
    /\ UNCHANGED notStoreVars

\* sendWithRetry: the loop ends without success; the error is returned.
GiveUp ==
    /\ stpc = "loop"
    /\ ~MoreAttempts(sw.attempt)
    /\ sw' = RetryGiveUp(sw)
    /\ sret' = RetryGiveUp(sw).ret
    /\ stpc' = "done"
    /\ UNCHANGED <<nLines, posts, slept>>
    /\ UNCHANGED notStoreVars

NextStore ==
    \/ \E n \in 0..MaxLines : StoreCall(n)
    \/ StoreEmpty
    \/ StoreSend
    \/ \E r \in Responses : Attempt(r)
    \/ GiveUp

(***************************************************************************)
(* Sink fan-out: Manager.StoreAllMetrics (storage/metrics/metrics.go)      *)
(***************************************************************************)

\* metrics.go:27-33, the stores of NewMetricsManager.
Stores == {"cpu", "ram", "disk", "network", "docker"}

\* The samples of a payload as the stores' Format sees them: pay.totals CPU
\* samples with IsTotal set, pay.cores CPU samples without, pay.n samples in
\* each of the disk, network and docker families.

\* The samples of a payload the agent builds from n samples per family: the
\* CPU list of buildCPUMetrics is the total sample followed by the per-core
\* samples.
AgentSamples(n) ==
    [totals |-> IF n > 0 THEN 1 ELSE 0,
     cores |-> IF n > 0 THEN n - 1 ELSE 0,
     n |-> n]

\* Number of lines XStore.Format returns for payload pay: the RAM store
\* always writes 3 lines; the CPU store, sample by sample, 1 line when
\* IsTotal is set and 4 when it is not (cpu_store.go:26-68); the disk and
\* docker stores 3 per sample, the network store 4.
FormatLen(s, pay) ==
    CASE s = "ram" -> 3
      [] s = "cpu" -> 1 * pay.totals + 4 * pay.cores
      [] s = "disk" -> 3 * pay.n
      [] s = "network" -> 4 * pay.n
      [] s = "docker" -> 3 * pay.n

\* The answers the time-series back end may give to the POSTs of one Store.
AnswerSeqs == [1..maxRetries -> {"204", "503"}]

\* A mutant of StoreAllReturn: a sink error is returned to the caller.
StoreAllReturn_Propagate(nErrors) == IF nErrors > 0 THEN "error" ELSE Nil

\* metrics.go:58-62: the collected errors are logged; return nil.
StoreAllReturn(nErrors) == Nil

\* metrics.go:43-53: one goroutine per store is started.
FanOutStart ==
    /\ spc = "store"
    /\ sink' = [s \in Stores |-> "spawned"]
    /\ errorsCh' = 0
    /\ fret' = "pending"
    /\ fanned' = Append(fanned, cur.id)
    /\ spc' = "wait"
    /\ UNCHANGED <<mctx, strmCtx, hcancel, npc, inflight, nClientSent,
                   clientClosed, cur, logged, out, hret>>
    /\ UNCHANGED notServerVars

\* metrics.go:45-52: the goroutine of store s: Format, Store (the back end
\* answering its POSTs with rs), the error sent on the buffered channel,
\* wg.Done.
SinkRun(s, rs) ==
    /\ spc = "wait"
    /\ sink[s] = "spawned"
    /\ LET res == StoreResult(FormatLen(s, cur), rs)
       IN  /\ sink' = [sink EXCEPT ![s] = IF res = Nil THEN "ok" ELSE "err"]
           /\ errorsCh' = IF res = Nil THEN errorsCh ELSE errorsCh + 1
    /\ UNCHANGED <<mctx, strmCtx, hcancel, spc, npc, inflight, nClientSent,
                   clientClosed, cur, logged, fret, fanned, out, hret>>
    /\ UNCHANGED notServerVars

(***************************************************************************)
(* Server stream endpoint: Handler.StreamMetrics (server/grpc/handler.go), *)
(* MetricService.SendStreamMetrics (server/service)                        *)
(***************************************************************************)

Running == "running"

\* The handler's derived ctx (context.WithCancel(stream.Context())) is done.
HCtxDone == hcancel \/ strmCtx

InitServer ==
    /\ mctx = FALSE
    /\ strmCtx = FALSE
    /\ hcancel = FALSE
    /\ spc = "select"
    /\ npc = "wait"
    /\ inflight = <<>>
    /\ nClientSent = 0
    /\ clientClosed = FALSE
    /\ cur = [id |-> 0, totals |-> 0, cores |-> 0, n |-> 0]
    /\ sink = [s \in Stores |-> "idle"]
    /\ errorsCh = 0
    /\ logged = 0
    /\ fret = "pending"
    /\ fanned = <<>>
    /\ out = <<>>
    /\ hret = Running

\* The client, an agent, sends the next payload on the stream.
ClientSend(n) ==
    /\ ~strmCtx
    /\ ~clientClosed
    /\ nClientSent < MaxPayloads
    /\ nClientSent' = nClientSent + 1
    /\ inflight' = Append(inflight, [id |-> nClientSent + 1,
                                     totals |-> AgentSamples(n).totals,
                                     cores |-> AgentSamples(n).cores,
                                     n |-> n])
    /\ UNCHANGED <<mctx, strmCtx, hcancel, spc, npc, clientClosed, cur, sink,
                   errorsCh, logged, fret, fanned, out, hret>>
    /\ UNCHANGED notServerVars

\* The client closes its send side (CloseSend).
ClientCloseSend ==
    /\ ~strmCtx
    /\ ~clientClosed
    /\ clientClosed' = TRUE
    /\ UNCHANGED <<mctx, strmCtx, hcancel, spc, npc, inflight, nClientSent,
                   cur, sink, errorsCh, logged, fret, fanned, out, hret>>
    /\ UNCHANGED notServerVars

\* The client cancels the stream, or the transport breaks.
ClientCancel ==
    /\ ~strmCtx
    /\ strmCtx' = TRUE
    /\ UNCHANGED <<mctx, hcancel, spc, npc, inflight, nClientSent,
                   clientClosed, cur, sink, errorsCh, logged, fret, fanned, out, hret>>
    /\ UNCHANGED notServerVars

\* NotifyShutdown: s.cancel().
MetricNotifyShutdown ==
    /\ ~mctx
    /\ mctx' = TRUE
    /\ UNCHANGED <<strmCtx, hcancel, spc, npc, inflight, nClientSent,
                   clientClosed, cur, sink, errorsCh, logged, fret, fanned, out, hret>>
    /\ UNCHANGED notServerVars

\* The handler returns with status st: its deferred cancel() runs and gRPC
\* ends the stream.
HandlerReturns(st) ==
    /\ hret' = st
    /\ spc' = "returned"
    /\ hcancel' = TRUE
    /\ strmCtx' = TRUE

\* The notifier goroutine, case <-ctx.Done(): return.
NotifierCtxDone ==
    /\ npc = "wait"
    /\ HCtxDone
    /\ npc' = "done"
    /\ UNCHANGED <<mctx, strmCtx, hcancel, spc, inflight, nClientSent,
                   clientClosed, cur, sink, errorsCh, logged, fret, fanned, out, hret>>
    /\ UNCHANGED notServerVars

\* The notifier goroutine, case <-s.ctx.Done(): stream.Send is called with
\* the shutdown response.  Nothing orders this call with the handler loop's.
NotifierSendBegin ==
    /\ npc = "wait"
    /\ mctx
    /\ npc' = "sending"
    /\ UNCHANGED <<mctx, strmCtx, hcancel, spc, inflight, nClientSent,
                   clientClosed, cur, sink, errorsCh, logged, fret, fanned, out, hret>>
    /\ UNCHANGED notServerVars

\* The notifier's stream.Send returns; a failed Send is logged.
NotifierSend ==
    /\ npc = "sending"
    /\ out' = IF strmCtx THEN out
              ELSE Append(out, [status |-> "shutdown", payload |-> 0])
    /\ npc' = "sent"
    /\ UNCHANGED <<mctx, strmCtx, hcancel, spc, inflight, nClientSent,
                   clientClosed, cur, sink, errorsCh, logged, fret, fanned, hret>>
    /\ UNCHANGED notServerVars

\* The notifier goroutine: cancel() after the Send.
NotifierCancel ==
    /\ npc = "sent"
    /\ hcancel' = TRUE
    /\ npc' = "done"
    /\ UNCHANGED <<mctx, strmCtx, spc, inflight, nClientSent, clientClosed,
                   cur, sink, errorsCh, logged, fret, fanned, out, hret>>
    /\ UNCHANGED notServerVars

\* The handler loop's select, case <-ctx.Done(): codes.Canceled.
HSelectCancelled ==
    /\ spc = "select"
    /\ HCtxDone
    /\ HandlerReturns("Canceled: stream terminated")
    /\ UNCHANGED <<mctx, npc, inflight, nClientSent, clientClosed, cur, sink,
                   errorsCh, logged, fret, fanned, out>>
    /\ UNCHANGED notServerVars

\* The handler loop's select, default: stream.Recv() is called.
HSelectRecv ==
    /\ spc = "select"
    /\ ~HCtxDone
    /\ spc' = "recv"
    /\ UNCHANGED <<mctx, strmCtx, hcancel, npc, inflight, nClientSent,
                   clientClosed, cur, sink, errorsCh, logged, fret, fanned, out, hret>>
    /\ UNCHANGED notServerVars

\* stream.Recv() returns the next payload.
HRecvMsg ==
    /\ spc = "recv"
    /\ inflight # <<>>
    /\ cur' = Head(inflight)
    /\ inflight' = Tail(inflight)
    /\ spc' = "store"
    /\ UNCHANGED <<mctx, strmCtx, hcancel, npc, nClientSent, clientClosed,
                   sink, errorsCh, logged, fret, fanned, out, hret>>
    /\ UNCHANGED notServerVars

\* stream.Recv() fails: the stream's context is done, or the client closed
\* its send side and everything sent was read (io.EOF).  codes.Internal.
HRecvErr ==
    /\ spc = "recv"
    /\ strmCtx \/ (clientClosed /\ inflight = <<>>)
    /\ HandlerReturns("Internal: failed to receive metrics")
    /\ UNCHANGED <<mctx, npc, inflight, nClientSent, clientClosed, cur, sink,
                   errorsCh, logged, fret, fanned, out>>
    /\ UNCHANGED notServerVars

\* A mutant of PcAfterStore: the acknowledgement is skipped.
PcAfterStore_NoAck == "select"

\* After StoreAllMetrics returned nil the handler sends the acknowledgement.
PcAfterStore == "ack"

\* metrics.go:55-62 and the handler's check of the result: wg.Wait() returns
\* when every goroutine is done (they are gone then); the channel is closed
\* and its errors are logged; StoreAllMetrics returns; on an error the
\* handler returns codes.Internal, else it goes on to the acknowledgement.
FanOutJoin ==
    /\ spc = "wait"
    /\ \A s \in Stores : sink[s] \in {"ok", "err"}
    /\ LET r == StoreAllReturn(errorsCh)
       IN  /\ fret' = r
           /\ IF r # Nil
              THEN HandlerReturns("Internal: failed to store metrics")
              ELSE /\ spc' = PcAfterStore
                   /\ UNCHANGED <<strmCtx, hcancel, hret>>
    /\ logged' = errorsCh
    /\ errorsCh' = 0
    /\ sink' = [s \in Stores |-> "idle"]
    /\ UNCHANGED <<mctx, npc, inflight, nClientSent, clientClosed, cur,
                   fanned, out>>
    /\ UNCHANGED notServerVars

\* The handler loop calls stream.Send with the acknowledgement.
HAckBegin ==
    /\ spc = "ack"
    /\ spc' = "acking"
    /\ UNCHANGED <<mctx, strmCtx, hcancel, npc, inflight, nClientSent,
                   clientClosed, cur, sink, errorsCh, logged, fret, fanned, out, hret>>
    /\ UNCHANGED notServerVars

\* stream.Send of the acknowledgement succeeds.
HAckOk ==
    /\ spc = "acking"
    /\ ~strmCtx
    /\ out' = Append(out, [status |-> "ok", payload |-> cur.id])
    /\ spc' = "select"
    /\ UNCHANGED <<mctx, strmCtx, hcancel, npc, inflight, nClientSent,
                   clientClosed, cur, sink, errorsCh, logged, fret, fanned, hret>>
    /\ UNCHANGED notServerVars

\* stream.Send of the acknowledgement fails.  codes.Internal.
HAckFail ==
    /\ spc = "acking"
    /\ strmCtx
    /\ HandlerReturns("Internal: failed to send response")
    /\ UNCHANGED <<mctx, npc, inflight, nClientSent, clientClosed, cur, sink,
                   errorsCh, logged, fret, fanned, out>>
    /\ UNCHANGED notServerVars

NextServer ==
    \/ \E n \in 0..MaxSamples : ClientSend(n)
    \/ ClientCloseSend
    \/ ClientCancel
    \/ MetricNotifyShutdown
    \/ NotifierCtxDone
    \/ NotifierSendBegin
    \/ NotifierSend
    \/ NotifierCancel
    \/ HSelectCancelled
    \/ HSelectRecv
    \/ HRecvMsg
    \/ HRecvErr
    \/ FanOutStart
    \/ \E s \in Stores : \E rs \in AnswerSeqs : SinkRun(s, rs)
    \/ FanOutJoin
    \/ HAckBegin
    \/ HAckOk
    \/ HAckFail

(***************************************************************************)
(* Server health watch: HealthCheckService.Watch (server/service),         *)
(* HealthCheckHandler.Watch (server/grpc), Server.Stop, shutdownServer     *)
(***************************************************************************)

\* Each Watch call draws a fresh uuid as its client id: the calls are told
\* apart by their ids.
Sessions == 1..MaxSessions

InitWatch ==
    /\ wctx = FALSE
    /\ stopCtx = FALSE
    /\ grpcState = "serving"
    /\ clients = {}
    /\ wpc = [c \in Sessions |-> "idle"]
    /\ cctx = [c \in Sessions |-> FALSE]
    /\ wsent = [c \in Sessions |-> <<>>]
    /\ nsCalls = [c \in Sessions |-> 0]
    /\ wret = [c \in Sessions |-> "none"]
    /\ atShutdown = {}

\* RegisterClient: s.clients[id] = ClientInfo{...}, under the lock.
RegisterClient(id) == clients \cup {id}

\* A mutant of UnregisterClient: the entry is left in the map.
UnregisterClient_Kept(id) == clients

\* UnregisterClient: delete(s.clients, id), under the lock.
UnregisterClient(id) == clients \ {id}

\* HealthCheckHandler.Watch and the start of HealthCheckService.Watch: a new
\* id, the session registered.  The server takes new calls until
\* GracefulStop is called.
WatchRegister(c) ==
    /\ grpcState = "serving"
    /\ wpc[c] = "idle"
    /\ clients' = RegisterClient(c)
    /\ wpc' = [wpc EXCEPT ![c] = "registered"]
    /\ UNCHANGED <<stopCtx, wctx, grpcState, cctx, wsent, nsCalls, wret, atShutdown>>
    /\ UNCHANGED notWatchVars

\* The client of a Watch stream goes away (cancel, broken transport).
WatchClientGone(c) ==
    /\ wpc[c] \in {"registered", "waiting"}
    /\ ~cctx[c]
    /\ cctx' = [cctx EXCEPT ![c] = TRUE]
    /\ UNCHANGED <<stopCtx, wctx, grpcState, clients, wpc, wsent, nsCalls, wret,
                   atShutdown>>
    /\ UNCHANGED notWatchVars

\* sendStatus(SERVING) succeeds; the call goes on to the select.
WatchSendInitial(c) ==
    /\ wpc[c] = "registered"
    /\ ~cctx[c]
    /\ wsent' = [wsent EXCEPT ![c] = Append(@, "SERVING")]
    /\ wpc' = [wpc EXCEPT ![c] = "waiting"]
    /\ UNCHANGED <<stopCtx, wctx, grpcState, clients, cctx, nsCalls, wret, atShutdown>>
    /\ UNCHANGED notWatchVars

\* sendStatus(SERVING) fails: return err.
WatchSendInitialFails(c) ==
    /\ wpc[c] = "registered"
    /\ cctx[c]
    /\ wret' = [wret EXCEPT ![c] = "send error"]
    /\ wpc' = [wpc EXCEPT ![c] = "exiting"]
    /\ UNCHANGED <<stopCtx, wctx, grpcState, clients, cctx, wsent, nsCalls, atShutdown>>
    /\ UNCHANGED notWatchVars

\* The select, case <-ctx.Done(): return ctx.Err().
WatchCtxDone(c) ==
    /\ wpc[c] = "waiting"
    /\ cctx[c]
    /\ wret' = [wret EXCEPT ![c] = "context canceled"]
    /\ wpc' = [wpc EXCEPT ![c] = "exiting"]
    /\ UNCHANGED <<stopCtx, wctx, grpcState, clients, cctx, wsent, nsCalls, atShutdown>>
    /\ UNCHANGED notWatchVars

\* A mutant of NotifiesOnShutdown: the shutdown branch returns silently.
NotifiesOnShutdown_Silent == FALSE

\* healthcheck_service.go:97: the shutdown branch calls
\* sendStatus(NOT_SERVING).
NotifiesOnShutdown == TRUE

\* A mutant of ShutdownStatus: the shutdown branch repeats SERVING.
ShutdownStatus_Serving == "SERVING"

\* healthcheck_service.go:97: the status the shutdown branch sends.
ShutdownStatus == "NOT_SERVING"

\* The select, case <-s.ctx.Done(): sendStatus(NOT_SERVING), its error
\* dropped; return nil.
WatchShutdown(c) ==
    /\ wpc[c] = "waiting"
    /\ wctx
    /\ IF NotifiesOnShutdown
       THEN /\ nsCalls' = [nsCalls EXCEPT ![c] = @ + 1]
            /\ wsent' = [wsent EXCEPT ![c] =
                            IF cctx[c] THEN @ ELSE Append(@, ShutdownStatus)]
       ELSE UNCHANGED <<nsCalls, wsent>>
    /\ wret' = [wret EXCEPT ![c] = Nil]
    /\ wpc' = [wpc EXCEPT ![c] = "exiting"]
    /\ UNCHANGED <<stopCtx, wctx, grpcState, clients, cctx, atShutdown>>
    /\ UNCHANGED notWatchVars

\* The deferred function of Watch: UnregisterClient(clientID); the call
\* returns.
WatchUnregister(c) ==
    /\ wpc[c] = "exiting"
    /\ clients' = UnregisterClient(c)
    /\ wpc' = [wpc EXCEPT ![c] = "done"]
    /\ UNCHANGED <<stopCtx, wctx, grpcState, cctx, wsent, nsCalls, wret, atShutdown>>
    /\ UNCHANGED notWatchVars

\* shutdownServer: srv.NotifyShutdown(), which cancels the service's ctx.
HealthNotifyShutdown ==
    /\ ~wctx
    /\ wctx' = TRUE
    /\ atShutdown' = clients
    /\ UNCHANGED <<stopCtx, grpcState, clients, wpc, cctx, wsent, nsCalls, wret>>
    /\ UNCHANGED notWatchVars

\* shutdownServer: srv.Stop(ctx) after NotifyShutdown; Stop calls
\* GracefulStop, which stops taking new calls.
StopBegins ==
    /\ wctx
    /\ grpcState = "serving"
    /\ grpcState' = "stopping"
    /\ UNCHANGED <<stopCtx, wctx, clients, wpc, cctx, wsent, nsCalls, wret, atShutdown>>
    /\ UNCHANGED notWatchVars

\* The timeout of the ctx that shutdownServer hands to Stop runs out while
\* Stop is in GracefulStop.
StopCtxExpires ==
    /\ grpcState = "stopping"
    /\ ~stopCtx
    /\ stopCtx' = TRUE
    /\ UNCHANGED <<wctx, grpcState, clients, wpc, cctx, wsent, nsCalls, wret,
                   atShutdown>>
    /\ UNCHANGED notWatchVars

\* A mutant of HandlersDrained: the server is stopped without waiting.
HandlersDrained_NoWait == TRUE

\* GracefulStop blocks until every pending call has returned.
HandlersDrained == \A c \in Sessions : wpc[c] \in {"idle", "done"}

\* GracefulStop returns, and Stop with it.
StopReturns ==
    /\ grpcState = "stopping"
    /\ HandlersDrained
    /\ grpcState' = "stopped"
    /\ UNCHANGED <<stopCtx, wctx, clients, wpc, cctx, wsent, nsCalls, wret, atShutdown>>
    /\ UNCHANGED notWatchVars

NextWatch ==
    \/ \E c \in Sessions : WatchRegister(c)
    \/ \E c \in Sessions : WatchClientGone(c)
    \/ \E c \in Sessions : WatchSendInitial(c)
    \/ \E c \in Sessions : WatchSendInitialFails(c)
    \/ \E c \in Sessions : WatchCtxDone(c)
    \/ \E c \in Sessions : WatchShutdown(c)
    \/ \E c \in Sessions : WatchUnregister(c)
    \/ HealthNotifyShutdown
    \/ StopBegins
    \/ StopCtxExpires
    \/ StopReturns

(***************************************************************************)
(* One tick's collection: collectAndSendMetrics (cmd/agent main)           *)
(***************************************************************************)

\* The sources of initCollectors, in the order collectAndSendMetrics uses
\* them: ram, host and network are called one after the other, then cpu,
\* disk and docker each in a goroutine.
SeqSources == <<"ram", "host", "network">>
GoSources == {"cpu", "disk", "docker"}
Sources == {"ram", "host", "network", "cpu", "disk", "docker"}

\* result := &collectionResult{errors: make([]error, 0)}: every slot holds
\* its zero value.
InitTick ==
    /\ tpc = "idle"
    /\ hasDocker = FALSE
    /\ gor = [g \in GoSources |-> "none"]
    /\ outc = [s \in Sources |-> "none"]
    /\ slots = [s \in Sources |-> "zero"]
    /\ errs = <<>>
    /\ tsent = <<>>
    /\ tret = "none"

\* collectAndSendMetrics(true, c, stream) is entered; c.docker is nil when
\* NewDockerCollector failed in initCollectors.
TickStart(d) ==
    /\ tpc = "idle"
    /\ tpc' = "seq1"
    /\ hasDocker' = d
    /\ UNCHANGED <<gor, outc, slots, errs, tsent, tret>>
    /\ UNCHANGED notTickVars

\* Whether a failed Collect of source s is appended to result.errors: the
\* docker goroutine only logs its error at debug level (lines 379-382).
RecordsError(s) == s # "docker"

\* The slot of a source after its Collect returned: the collectors return the
\* zero value with an error, and the goroutines leave the slot alone on one.
SlotAfter(ok) == IF ok THEN "data" ELSE "zero"

\* One source's Collect returned, with or without an error.
Collected(s, ok) ==
    /\ outc' = [outc EXCEPT ![s] = IF ok THEN "ok" ELSE "fail"]
    /\ slots' = [slots EXCEPT ![s] = SlotAfter(ok)]
    /\ errs' = IF ~ok /\ RecordsError(s) THEN Append(errs, s) ELSE errs

\* Lines 320-336: c.ram.Collect(), c.host.Collect(), c.network.Collect() in
\* turn; after the third the goroutines of cpu, disk and (when c.docker is
\* not nil) docker are started.
CollectSeq(i, ok) ==
    /\ tpc = <<"seq1", "seq2", "seq3">>[i]
    /\ Collected(SeqSources[i], ok)
    /\ tpc' = <<"seq2", "seq3", "wait">>[i]
    /\ gor' = IF i = 3
              THEN [g \in GoSources |->
                      IF g = "docker" /\ ~hasDocker THEN "none" ELSE "running"]
              ELSE gor
    /\ UNCHANGED <<hasDocker, tsent, tret>>
    /\ UNCHANGED notTickVars

\* Lines 349-390: the goroutine of source g calls Collect, stores the result
\* or the error under the mutex, and is done.
CollectGo(g, ok) ==
    /\ tpc = "wait"
    /\ gor[g] = "running"
    /\ Collected(g, ok)
    /\ gor' = [gor EXCEPT ![g] = "done"]
    /\ UNCHANGED <<tpc, hasDocker, tsent, tret>>
    /\ UNCHANGED notTickVars

\* A mutant of TickGoesOn: a tick with a recorded error is given up.
TickGoesOn_OnlyClean(nErrors) == nErrors = 0

\* Lines 392-395: with errors in the list a warning is logged and the tick
\* goes on with the partial metrics.
TickGoesOn(nErrors) == TRUE

\* wg.Wait() returns when every goroutine started is done; the payload is
\* built from the slots (lines 392-405).
CollectJoin ==
    /\ tpc = "wait"
    /\ \A g \in GoSources : gor[g] # "running"
    /\ IF TickGoesOn(Len(errs))
       THEN tpc' = "send" /\ UNCHANGED tret
       ELSE tpc' = "done" /\ tret' = "collect error"
    /\ UNCHANGED <<hasDocker, gor, outc, slots, errs, tsent>>
    /\ UNCHANGED notTickVars

\* stream.Send(pbMetrics) succeeds.
TickSendOk ==
    /\ tpc = "send"
    /\ tsent' = Append(tsent, slots)
    /\ tpc' = "recv"
    /\ UNCHANGED <<hasDocker, gor, outc, slots, errs, tret>>
    /\ UNCHANGED notTickVars

\* stream.Send(pbMetrics) fails: "failed to send metrics".
TickSendFail ==
    /\ tpc = "send"
    /\ tsent' = Append(tsent, slots)
    /\ tpc' = "done"
    /\ tret' = "failed to send metrics"
    /\ UNCHANGED <<hasDocker, gor, outc, slots, errs>>
    /\ UNCHANGED notTickVars

\* stream.Recv() returns the acknowledgement, or fails.
TickRecv(ok) ==
    /\ tpc = "recv"
    /\ tpc' = "done"
    /\ tret' = IF ok THEN Nil ELSE "failed to receive acknowledgment"
    /\ UNCHANGED <<hasDocker, gor, outc, slots, errs, tsent>>
    /\ UNCHANGED notTickVars

NextTick ==
    \/ \E d \in BOOLEAN : TickStart(d)
    \/ \E i \in 1..3, ok \in BOOLEAN : CollectSeq(i, ok)
    \/ \E g \in GoSources, ok \in BOOLEAN : CollectGo(g, ok)
    \/ CollectJoin
    \/ TickSendOk
    \/ TickSendFail
    \/ \E ok \in BOOLEAN : TickRecv(ok)

(***************************************************************************)
(* Container collector: calculateCPUPercentage, parseImageName             *)
(***************************************************************************)

\* No call was made yet; a CPUCollector is built with a zero lastCollectTime.
InitColl ==
    /\ pctCall = <<>>
    /\ imgCall = <<>>
    /\ cpuWarm = FALSE
    /\ cpuCall = <<>>
    /\ payloadCpu = <<>>

\* float64(x - y) for two uint64 counters (lines 256-257).  The difference is
\* taken in uint64, modulo 2^64: with x < y it is 2^64 - (y - x), which
\* float64 rounds to 2^64 for the differences of this model (up to 1024).
\* huge stands for the value 2^64, else the value is v.
Delta(x, y) ==
    IF x >= y THEN [huge |-> FALSE, v |-> x - y]
    ELSE [huge |-> TRUE, v |-> 0]

\* A percentage: the number num / (den * 2^exp).
Pct(num, den, exp) == [num |-> num, den |-> den, exp |-> exp]

\* Lines 263-270: OnlineCPUs, else the number of per-CPU usage entries, else 1.
NumCPUs(online, percpu) ==
    IF online = 0 THEN (IF percpu > 0 THEN percpu ELSE 1) ELSE online

\* calculateCPUPercentage on the counters curT/preT (CPUUsage.TotalUsage of
\* CPUStats and PreCPUStats) and curS/preS (SystemUsage of the two).
calculateCPUPercentage(curT, preT, curS, preS, online, percpu) ==
    LET cpuDelta == Delta(curT, preT)
        systemDelta == Delta(curS, preS)
        numCPUs == NumCPUs(online, percpu)
    IN  IF (~systemDelta.huge /\ systemDelta.v <= 0)
           \/ (~cpuDelta.huge /\ cpuDelta.v < 0)
        THEN Pct(0, 1, 0)
        ELSE IF cpuDelta.huge
        \* 2^64 / systemDelta * numCPUs * 100 is 100 or more
        THEN Pct(100, 1, 0)
        ELSE IF systemDelta.huge
        \* cpuDelta / 2^64 * numCPUs * 100 is in [0, 100)
        THEN Pct(cpuDelta.v * numCPUs * 100, 1, 64)
        ELSE IF cpuDelta.v * numCPUs * 100 > 100 * systemDelta.v
        THEN Pct(100, 1, 0)
        ELSE IF cpuDelta.v * numCPUs * 100 < 0
        THEN Pct(0, 1, 0)
        ELSE Pct(cpuDelta.v * numCPUs * 100, systemDelta.v, 0)

\* DockerCollector.buildCPUMetrics calls calculateCPUPercentage on the stats
\* of a container.
CpuPctCall(curT, preT, curS, preS, online, percpu) ==
    /\ pctCall = <<>>
    /\ pctCall' = <<[curT |-> curT, preT |-> preT, curS |-> curS,
                     preS |-> preS, online |-> online, percpu |-> percpu,
                     out |-> calculateCPUPercentage(curT, preT, curS, preS,
                                                    online, percpu)]>>
    /\ UNCHANGED <<imgCall, cpuWarm, cpuCall, payloadCpu>>
    /\ UNCHANGED notCollVars

NextCpuPct ==
    \E curT, preT, curS, preS \in 0..MaxCounter, online, percpu \in 0..MaxCores :
        CpuPctCall(curT, preT, curS, preS, online, percpu)

\* The characters of an image reference.
Chars == {"a", "b", "c", ":"}

ImageRefs == UNION {[1..n -> Chars] : n \in 0..MaxImageLen}

Latest == <<"l", "a", "t", "e", "s", "t">>

\* A mutant of LastIndex: the leftmost colon (strings.Index).
LastIndex_First(image) ==
    IF \E i \in 1..Len(image) : image[i] = ":"
    THEN (CHOOSE i \in 1..Len(image) :
             /\ image[i] = ":"
             /\ \A j \in 1..(i - 1) : image[j] # ":") - 1
    ELSE -1

\* strings.LastIndex(image, ":"): the 0-based index of the rightmost colon,
\* -1 without one.
LastIndex(image) ==
    IF \E i \in 1..Len(image) : image[i] = ":"
    THEN (CHOOSE i \in 1..Len(image) :
             /\ image[i] = ":"
             /\ \A j \in (i + 1)..Len(image) : image[j] # ":") - 1
    ELSE -1

\* parseImageName: image[:idx], image[idx+1:] with a colon, else image and
\* "latest".
parseImageName(image) ==
    LET idx == LastIndex(image)
    IN  IF idx # -1
        THEN <<SubSeq(image, 1, idx), SubSeq(image, idx + 2, Len(image))>>
        ELSE <<image, Latest>>

\* processContainer calls parseImageName on the container's image.
ImageCall(image) ==
    /\ imgCall = <<>>
    /\ imgCall' = <<[image |-> image, name |-> parseImageName(image)[1],
                     tag |-> parseImageName(image)[2]]>>
    /\ UNCHANGED <<pctCall, cpuWarm, cpuCall, payloadCpu>>
    /\ UNCHANGED notCollVars

NextImage == \E image \in ImageRefs : ImageCall(image)

(***************************************************************************)
(* CPU collector: CPUCollector.Collect and buildCPUMetrics                 *)
(***************************************************************************)

\* What getCachedStaticData yields: an error, or the entries of cpu.Info()
\* and the physical core count.
StaticInputs ==
    [err : BOOLEAN, info : 0..MaxInfo, physical : 0..MaxCores]

\* What one pass of Collect reads: cpu.Times(false) (an error, or its
\* entries) and cpu.Times(true) (an error and no entries, or its entries).
TimesInputs ==
    [totalErr : BOOLEAN, total : 0..1, timesErr : BOOLEAN, times : 0..MaxCores]

\* CoreID: i + 1 (line 190).
CoreIdOf(i) == i + 1

\* The loop of buildCPUMetrics from index i on (lines 178-196).
RECURSIVE PerCore(_, _, _)
PerCore(i, physicalCount, nTimes) ==
    IF i < physicalCount /\ i < nTimes
    THEN <<[isTotal |-> FALSE, coreId |-> CoreIdOf(i)]>>
             \o PerCore(i + 1, physicalCount, nTimes)
    ELSE <<>>

\* buildCPUMetrics: cpuInfo[0] and cpuTimes[0] are read unguarded, an index
\* out of range panics; else the total sample, then the per-core samples.
buildCPUMetrics(nInfo, nTimes, physicalCount) ==
    IF nInfo = 0 \/ nTimes = 0
    THEN [kind |-> "panic", list |-> <<>>]
    ELSE [kind |-> "ok",
          list |-> <<[isTotal |-> TRUE, coreId |-> 0]>>
                       \o PerCore(0, physicalCount, nTimes)]

\* The pass of Collect that has a previous sample (lines 79-88, 102-134).
CollectWarm(st, t) ==
    IF st.err THEN [kind |-> "error", list |-> <<>>]
    ELSE IF t.totalErr THEN [kind |-> "error", list |-> <<>>]
    ELSE IF t.total = 0 THEN [kind |-> "nil", list |-> <<>>]
    ELSE buildCPUMetrics(st.info, IF t.timesErr THEN 0 ELSE t.times,
                         st.physical)

\* The first pass stored a sample and Collect called itself (lines 90-100).
WarmsUp(st, t) == ~cpuWarm /\ ~st.err /\ ~t.totalErr /\ t.total > 0

\* Collect: without a previous sample the first pass stores one and the
\* result is that of the second pass, which calls getCachedStaticData and
\* cpu.Times anew (st2, t2): the static cache may have run out during the
\* warm-up sleep.
CpuCollect(st1, st2, t1, t2) ==
    /\ cpuCall = <<>>
    /\ cpuWarm' = (cpuWarm \/ WarmsUp(st1, t1))
    /\ LET st == IF WarmsUp(st1, t1) THEN st2 ELSE st1
           t == IF WarmsUp(st1, t1) THEN t2 ELSE t1
           r == CollectWarm(st, t)
       IN  cpuCall' = <<[st |-> st, t |-> t, kind |-> r.kind, list |-> r.list]>>
    /\ UNCHANGED <<pctCall, imgCall, payloadCpu>>
    /\ UNCHANGED notCollVars

\* ConvertCPUMetrics: one entry per sample, IsTotal and CoreID copied.
ConvertCPUMetrics(metrics) ==
    [i \in 1..Len(metrics) |->
        [isTotal |-> metrics[i].isTotal, coreId |-> metrics[i].coreId]]

\* result.cpuMetrics after the CPU goroutine (part_021:350-360): the list of
\* Collect, nil after an error.
CpuSlot(call) == IF call.kind = "error" THEN <<>> ELSE call.list

\* collectAndSendMetrics builds the payload; a panic of Collect ends the
\* process before.
CpuPayload ==
    /\ cpuCall # <<>>
    /\ cpuCall[1].kind # "panic"
    /\ payloadCpu = <<>>
    /\ payloadCpu' = <<ConvertCPUMetrics(CpuSlot(cpuCall[1]))>>
    /\ UNCHANGED <<pctCall, imgCall, cpuWarm, cpuCall>>
    /\ UNCHANGED notCollVars

\* The next tick of the metrics loop.
CpuNextTick ==
    /\ payloadCpu # <<>>
    /\ cpuCall' = <<>>
    /\ payloadCpu' = <<>>
    /\ UNCHANGED <<pctCall, imgCall, cpuWarm>>
    /\ UNCHANGED notCollVars

NextCpuList ==
    \/ \E st1, st2 \in StaticInputs, t1, t2 \in TimesInputs :
          CpuCollect(st1, st2, t1, t2)
    \/ CpuPayload
    \/ CpuNextTick

(***************************************************************************)
(* Container collector: DockerCollector.Collect and its worker pool        *)
(***************************************************************************)

\* calculateOptimalWorkers: its constants.
minWorkers == 1
maxWorkers == 8
containersPerWorker == 3

\* A mutant of calculateOptimalWorkers: the division rounds down.
calculateOptimalWorkers_Floor(containerCount) ==
    IF containerCount <= 0 THEN minWorkers
    ELSE LET optimalWorkers == containerCount \div containersPerWorker
         IN  IF optimalWorkers > maxWorkers THEN maxWorkers
             ELSE IF optimalWorkers < minWorkers THEN minWorkers
             ELSE optimalWorkers

\* calculateOptimalWorkers: the containers divided by three, rounded up,
\* within [minWorkers, maxWorkers].
calculateOptimalWorkers(containerCount) ==
    IF containerCount <= 0 THEN minWorkers
    ELSE LET optimalWorkers ==
                 (containerCount + containersPerWorker - 1) \div containersPerWorker
         IN  IF optimalWorkers > maxWorkers THEN maxWorkers
             ELSE IF optimalWorkers < minWorkers THEN minWorkers
             ELSE optimalWorkers

\* The worker goroutines a call can start, and those it did start.
WorkerIds == 1..calculateOptimalWorkers(MaxContainers)
Workers == 1..calculateOptimalWorkers(dN)

InitDock ==
    /\ dpc = "idle"
    /\ dN = 0
    /\ dctx = FALSE
    /\ pushed = 0
    /\ jobs = <<>>
    /\ jobsClosed = FALSE
    /\ wst = [w \in WorkerIds |-> "none"]
    /\ whold = [w \in WorkerIds |-> 0]
    /\ resultsCh = <<>>
    /\ produced = <<>>
    /\ nCloses = 0
    /\ exitedAtClose = {}
    /\ cpc = "none"
    /\ dmetrics = <<>>
    /\ errorCount = 0
    /\ dret = "pending"

\* Collect: ContainerList fails; return nil and the error.
DockerListFails ==
    /\ dpc = "idle"
    /\ dret' = "error"
    /\ dpc' = "done"
    /\ UNCHANGED <<dN, dctx, pushed, jobs, jobsClosed, wst, whold, resultsCh,
                   produced, nCloses, exitedAtClose, cpc, dmetrics, errorCount>>
    /\ UNCHANGED notDockVars

\* Collect: ContainerList returns n containers; with none, an empty list and
\* nil are returned.
DockerList(n) ==
    /\ dpc = "idle"
    /\ dN' = n
    /\ IF n = 0
       THEN dret' = Nil /\ dpc' = "done"
       ELSE dpc' = "spawn" /\ UNCHANGED dret
    /\ UNCHANGED <<dctx, pushed, jobs, jobsClosed, wst, whold, resultsCh,
                   produced, nCloses, exitedAtClose, cpc, dmetrics, errorCount>>
    /\ UNCHANGED notDockVars

\* The 10-second timeout of the call's context runs out.
DockerTimeout ==
    /\ dpc \in {"spawn", "push", "range"}
    /\ ~dctx
    /\ dctx' = TRUE
    /\ UNCHANGED <<dpc, dN, pushed, jobs, jobsClosed, wst, whold, resultsCh,
                   produced, nCloses, exitedAtClose, cpc, dmetrics, errorCount,
                   dret>>
    /\ UNCHANGED notDockVars

\* Collect: numWorkers worker goroutines are started (wg.Add(1) for each).
DockerSpawn ==
    /\ dpc = "spawn"
    /\ wst' = [w \in WorkerIds |-> IF w \in Workers THEN "wait" ELSE "none"]
    /\ dpc' = "push"
    /\ UNCHANGED <<dN, dctx, pushed, jobs, jobsClosed, whold, resultsCh,
                   produced, nCloses, exitedAtClose, cpc, dmetrics, errorCount,
                   dret>>
    /\ UNCHANGED notDockVars

\* Collect: jobs <- container, on a channel with room for len(containers).
DockerPush ==
    /\ dpc = "push"
    /\ pushed < dN
    /\ Len(jobs) < dN
    /\ pushed' = pushed + 1
    /\ jobs' = Append(jobs, pushed + 1)
    /\ UNCHANGED <<dpc, dN, dctx, jobsClosed, wst, whold, resultsCh, produced,
                   nCloses, exitedAtClose, cpc, dmetrics, errorCount, dret>>
    /\ UNCHANGED notDockVars

\* Collect: close(jobs) after the last container, then the goroutine that
\* waits for the workers is started and Collect ranges over results.
DockerCloseJobs ==
    /\ dpc = "push"
    /\ pushed = dN
    /\ jobsClosed' = TRUE
    /\ cpc' = "waiting"
    /\ dpc' = "range"
    /\ UNCHANGED <<dN, dctx, pushed, jobs, wst, whold, resultsCh, produced,
                   nCloses, exitedAtClose, dmetrics, errorCount, dret>>
    /\ UNCHANGED notDockVars

\* worker: for container := range jobs takes the next container.
WorkerTake(w) ==
    /\ wst[w] = "wait"
    /\ jobs # <<>>
    /\ whold' = [whold EXCEPT ![w] = Head(jobs)]
    /\ jobs' = Tail(jobs)
    /\ wst' = [wst EXCEPT ![w] = "got"]
    /\ UNCHANGED <<dpc, dN, dctx, pushed, jobsClosed, resultsCh, produced,
                   nCloses, exitedAtClose, cpc, dmetrics, errorCount, dret>>
    /\ UNCHANGED notDockVars

\* A mutant of ExpiredYieldsResult: an expired job is skipped silently.
ExpiredYieldsResult_Skipped == FALSE

\* worker lines 130-135: with the context expired the job still yields a
\* result, carrying ctx.Err().
ExpiredYieldsResult == TRUE

\* results <- r, on a channel with room for len(containers).
SendResult(r) ==
    /\ Len(resultsCh) < dN
    /\ resultsCh' = Append(resultsCh, r)
    /\ produced' = Append(produced, r)

\* worker: ctx.Err() != nil: a result with the error, continue.
WorkerExpired(w) ==
    /\ wst[w] = "got"
    /\ dctx
    /\ IF ExpiredYieldsResult
       THEN SendResult([id |-> whold[w], ok |-> FALSE, late |-> TRUE])
       ELSE UNCHANGED <<resultsCh, produced>>
    /\ whold' = [whold EXCEPT ![w] = 0]
    /\ wst' = [wst EXCEPT ![w] = "wait"]
    /\ UNCHANGED <<dpc, dN, dctx, pushed, jobs, jobsClosed, nCloses,
                   exitedAtClose, cpc, dmetrics, errorCount, dret>>
    /\ UNCHANGED notDockVars

\* worker line 130: ctx.Err() is nil; processContainer is called.
WorkerStart(w) ==
    /\ wst[w] = "got"
    /\ ~dctx
    /\ wst' = [wst EXCEPT ![w] = "processing"]
    /\ UNCHANGED <<dpc, dN, dctx, pushed, jobs, jobsClosed, whold, resultsCh,
                   produced, nCloses, exitedAtClose, cpc, dmetrics, errorCount,
                   dret>>
    /\ UNCHANGED notDockVars

\* worker lines 138-143: processContainer returns, having succeeded (ok) or
\* failed (stats error, timeout during the call), and its own result is
\* sent, also when the context has expired since the check of line 130.
WorkerProcess(w, ok) ==
    /\ wst[w] = "processing"
    /\ SendResult([id |-> whold[w], ok |-> ok, late |-> FALSE])
    /\ whold' = [whold EXCEPT ![w] = 0]
    /\ wst' = [wst EXCEPT ![w] = "wait"]
    /\ UNCHANGED <<dpc, dN, dctx, pushed, jobs, jobsClosed, nCloses,
                   exitedAtClose, cpc, dmetrics, errorCount, dret>>
    /\ UNCHANGED notDockVars

\* worker: jobs is closed and empty; the range ends, wg.Done().
WorkerExit(w) ==
    /\ wst[w] = "wait"
    /\ jobs = <<>>
    /\ jobsClosed
    /\ wst' = [wst EXCEPT ![w] = "exited"]
    /\ UNCHANGED <<dpc, dN, dctx, pushed, jobs, jobsClosed, whold, resultsCh,
                   produced, nCloses, exitedAtClose, cpc, dmetrics, errorCount,
                   dret>>
    /\ UNCHANGED notDockVars

\* The closing goroutine: wg.Wait() returns when every worker has called
\* wg.Done(); close(results).
CloserClose ==
    /\ cpc = "waiting"
    /\ \A w \in Workers : wst[w] = "exited"
    /\ nCloses' = nCloses + 1
    /\ exitedAtClose' = {w \in Workers : wst[w] = "exited"}
    /\ cpc' = "done"
    /\ UNCHANGED <<dpc, dN, dctx, pushed, jobs, jobsClosed, wst, whold,
                   resultsCh, produced, dmetrics, errorCount, dret>>
    /\ UNCHANGED notDockVars

\* A mutant of KeepsSample: a failed container is kept as a sample.
KeepsSample_All(r) == TRUE

\* Collect lines 72-80: a result without error is appended to metrics.
KeepsSample(r) == r.ok

\* Collect: for result := range results, one result.
DockerDrain ==
    /\ dpc = "range"
    /\ resultsCh # <<>>
    /\ resultsCh' = Tail(resultsCh)
    /\ IF KeepsSample(Head(resultsCh))
       THEN /\ dmetrics' = Append(dmetrics, Head(resultsCh).id)
            /\ UNCHANGED errorCount
       ELSE /\ errorCount' = errorCount + 1
            /\ UNCHANGED dmetrics
    /\ UNCHANGED <<dpc, dN, dctx, pushed, jobs, jobsClosed, wst, whold,
                   produced, nCloses, exitedAtClose, cpc, dret>>
    /\ UNCHANGED notDockVars

\* Collect: results is closed and drained; return metrics, nil.
DockerReturn ==
    /\ dpc = "range"
    /\ resultsCh = <<>>
    /\ nCloses > 0
    /\ dret' = Nil
    /\ dpc' = "done"
    /\ UNCHANGED <<dN, dctx, pushed, jobs, jobsClosed, wst, whold, resultsCh,
                   produced, nCloses, exitedAtClose, cpc, dmetrics, errorCount>>
    /\ UNCHANGED notDockVars

\* The steps of Collect and of its goroutines after the list.
DockerRun ==
    \/ DockerSpawn
    \/ DockerPush
    \/ DockerCloseJobs
    \/ \E w \in WorkerIds : WorkerTake(w)
    \/ \E w \in WorkerIds : WorkerExpired(w)
    \/ \E w \in WorkerIds : WorkerStart(w)
    \/ \E w \in WorkerIds : \E ok \in BOOLEAN : WorkerProcess(w, ok)
    \/ \E w \in WorkerIds : WorkerExit(w)
    \/ CloserClose
    \/ DockerDrain
    \/ DockerReturn

NextDocker ==
    \/ DockerListFails
    \/ \E n \in 0..MaxContainers : DockerList(n)
    \/ DockerTimeout
    \/ DockerRun

(***************************************************************************)
(* HTTP-polling health service: Service.check, Service.IsHealthy           *)
(***************************************************************************)

\* What client.Get can give: a transport error, or a response with a status.
PollAnswers == {TransportErr, "200", "204", "500", "503"}

\* New: lastCheck is false, and no check has run.
InitPoll ==
    /\ lastCheck = FALSE
    /\ ppc = "idle"
    /\ pending = "none"
    /\ stored = <<>>
    /\ lastResp = "none"
    /\ seen = <<>>

\* A mutant of CheckResult: every response counts as healthy, whatever its
\* status.
CheckResult_AnyResponse(r) == r # TransportErr

\* check lines 66-79: false on an error of Get, else StatusCode == 200.
CheckResult(r) == r # TransportErr /\ r = "200"

\* check, as Start calls it at once and on every tick, up to the return of
\* client.Get with the answer r.
PollGet(r) ==
    /\ ppc = "idle"
    /\ Len(stored) < MaxChecks
    /\ ppc' = "got"
    /\ pending' = r
    /\ UNCHANGED <<lastCheck, stored, lastResp, seen>>
    /\ UNCHANGED notPollVars

\* check, the rest: the result is stored in lastCheck and check returns.
PollStore ==
    /\ ppc = "got"
    /\ lastCheck' = CheckResult(pending)
    /\ stored' = Append(stored, CheckResult(pending))
    /\ lastResp' = pending
    /\ ppc' = "idle"
    /\ pending' = "none"
    /\ UNCHANGED seen
    /\ UNCHANGED notPollVars

\* IsHealthy, called at any moment, also by another goroutine while a check
\* is in flight: it returns the field.  The field is a single byte, so a read
\* beside a store gives the value before it or the value after it, which are
\* the two orders of this action and PollStore.  (Service.IsHealthy of the
\* polling service; IsHealthy above is the gRPC monitor's.)
PollIsHealthy ==
    /\ seen' = <<[ret |-> lastCheck, resp |-> lastResp, n |-> Len(stored)]>>
    /\ UNCHANGED <<lastCheck, ppc, pending, stored, lastResp>>
    /\ UNCHANGED notPollVars

NextPoll ==
    \/ \E r \in PollAnswers : PollGet(r)
    \/ PollStore
    \/ PollIsHealthy

(***************************************************************************)
(* One call of Manager.StoreAllMetrics, goroutine by goroutine             *)
(* (server/storage/metrics/metrics.go)                                     *)
(***************************************************************************)

\* metrics.go:27-33, the stores of NewMetricsManager in the order of the slice.
StoreOrder == <<"cpu", "ram", "disk", "network", "docker">>

NanosPerMilli == 1000000

\* Timestamps of the payloads, in ns since the epoch.
PayloadNanos == {0, 999999, 1000000, 2500000}

\* metrics.go:38: UnixNano() / int64(time.Millisecond).
TimestampMs(ns) == ns \div NanosPerMilli

\* The samples a payload handed to StoreAllMetrics may carry: a CPU list of
\* up to MaxSamples samples with and without IsTotal, in any mix (the server
\* checks no shape), and up to MaxSamples samples in the other families.
SampleCounts ==
    {c \in [totals : 0..MaxSamples, cores : 0..MaxSamples, n : 0..MaxSamples] :
        c.totals + c.cores <= MaxSamples}

\* A mutant of ErrorsCap: the errors channel is one place short.
ErrorsCap_OneShort == Len(StoreOrder) - 1

\* metrics.go:40: make(chan error, len(m.stores)).
ErrorsCap == Len(StoreOrder)

InitFan ==
    /\ fpc = "idle"
    /\ fpay = [ns |-> 0, totals |-> 0, cores |-> 0, n |-> 0]
    /\ fts = 0
    /\ flines = [s \in Stores |-> 0]
    /\ nSpawned = 0
    /\ task = [s \in Stores |-> "none"]
    /\ fcalls = [s \in Stores |-> <<>>]
    /\ fErrors = 0
    /\ fLogged = 0
    /\ fout = "pending"

\* metrics.go:37-40: StoreAllMetrics is called with a payload; the timestamp
\* is computed once, the channel made.
FanCall(ns, c) ==
    /\ fpc = "idle"
    /\ fpay' = [ns |-> ns, totals |-> c.totals, cores |-> c.cores, n |-> c.n]
    /\ fts' = TimestampMs(ns)
    /\ fpc' = "loop"
    /\ UNCHANGED <<nSpawned, task, flines, fcalls, fErrors, fLogged, fout>>
    /\ UNCHANGED notFanVars

\* metrics.go:43-53: one turn of the loop: wg.Add(1), go func(store).
FanSpawn ==
    /\ fpc = "loop"
    /\ nSpawned < Len(StoreOrder)
    /\ nSpawned' = nSpawned + 1
    /\ task' = [task EXCEPT ![StoreOrder[nSpawned + 1]] = "spawned"]
    /\ UNCHANGED <<fpc, fpay, fts, flines, fcalls, fErrors, fLogged, fout>>
    /\ UNCHANGED notFanVars

\* The loop is over: wg.Wait() is reached.
FanLoopEnd ==
    /\ fpc = "loop"
    /\ nSpawned = Len(StoreOrder)
    /\ fpc' = "wait"
    /\ UNCHANGED <<fpay, fts, nSpawned, task, flines, fcalls, fErrors, fLogged,
                   fout>>
    /\ UNCHANGED notFanVars

\* metrics.go:48: the goroutine of store s calls s.Format(metrics, timestamp)
\* and keeps the lines it returns.
SinkFormat(s) ==
    /\ task[s] = "spawned"
    /\ fcalls' = [fcalls EXCEPT ![s] =
                      Append(@, [op |-> "Format", ts |-> fts, arg |-> fpay])]
    /\ flines' = [flines EXCEPT ![s] = FormatLen(s, fpay)]
    /\ task' = [task EXCEPT ![s] = "formatted"]
    /\ UNCHANGED <<fpc, fpay, fts, nSpawned, fErrors, fLogged, fout>>
    /\ UNCHANGED notFanVars

\* metrics.go:49 and 46: s.Store(lines), the back end answering its POSTs
\* with rs; on nil the goroutine ends (wg.Done), on an error it goes on to
\* send the error.
SinkStore(s, rs) ==
    /\ task[s] = "formatted"
    /\ fcalls' = [fcalls EXCEPT ![s] =
                      Append(@, [op |-> "Store", lines |-> flines[s]])]
    /\ task' = [task EXCEPT ![s] =
                  IF StoreResult(flines[s], rs) = Nil
                  THEN "done" ELSE "sending"]
    /\ UNCHANGED <<fpc, fpay, fts, nSpawned, flines, fErrors, fLogged, fout>>
    /\ UNCHANGED notFanVars

\* metrics.go:50 and 46: errors <- err, which needs room in the channel
\* (nothing receives before wg.Wait() has returned); then wg.Done.
SinkReport(s) ==
    /\ task[s] = "sending"
    /\ fErrors < ErrorsCap
    /\ fErrors' = fErrors + 1
    /\ task' = [task EXCEPT ![s] = "done"]
    /\ UNCHANGED <<fpc, fpay, fts, nSpawned, flines, fcalls, fLogged, fout>>
    /\ UNCHANGED notFanVars

\* metrics.go:55-62: wg.Wait() returns once every goroutine has called
\* Done; close(errors); every buffered error is logged; return nil.
FanJoin ==
    /\ fpc = "wait"
    /\ \A s \in Stores : task[s] = "done"
    /\ fLogged' = fErrors
    /\ fErrors' = 0
    /\ fout' = StoreAllReturn(fErrors)
    /\ fpc' = "returned"
    /\ UNCHANGED <<fpay, fts, nSpawned, task, flines, fcalls>>
    /\ UNCHANGED notFanVars

NextFan ==
    \/ \E ns \in PayloadNanos : \E c \in SampleCounts : FanCall(ns, c)
    \/ FanSpawn
    \/ FanLoopEnd
    \/ \E s \in Stores : SinkFormat(s)
    \/ \E s \in Stores : \E rs \in AnswerSeqs : SinkStore(s, rs)
    \/ \E s \in Stores : SinkReport(s)
    \/ FanJoin

(***************************************************************************)
(* Static-data cache: HostCollector.getCachedStaticData and                *)
(* CPUCollector.getCachedStaticData (agent/collector)                      *)
(***************************************************************************)

Callers == 1..MaxCallers

\* NewHostCollector / NewCPUCollector: the cache lives for cacheDuration
\* (10 and 5 minutes; here in units of the clock).
cacheDuration == 2

\* The zero collector: nothing cached, the zero expiry, the lock free.
InitCache ==
    /\ cnow = 1
    /\ cacheExpiry = 0
    /\ cachedInfo = 0
    /\ readers = {}
    /\ writer = 0
    /\ cachePc = [p \in Callers |-> "idle"]
    /\ cacheRet = [p \in Callers |-> [val |-> 0, by |-> "none", at |-> 0]]
    /\ nCalls = 0
    /\ fetches = <<>>

\* time.Now().Before(c.cacheExpiry) && c.cachedStaticInfo != nil
CacheValid(now, expiry, info) == now < expiry /\ info # 0

\* A mutant of DoubleCheck: no second look at the cache under the write lock.
DoubleCheck_Skipped(now, expiry, info) == FALSE

\* host_collector.go:57-60: the check repeated under the write lock.
DoubleCheck(now, expiry, info) == CacheValid(now, expiry, info)

\* Time passes.
CacheClock ==
    /\ cnow < MaxClock
    /\ cnow' = cnow + 1
    /\ UNCHANGED <<cacheExpiry, cachedInfo, readers, writer, cachePc, cacheRet,
                   nCalls, fetches>>
    /\ UNCHANGED notCacheVars

\* A goroutine calls getCachedStaticData: c.mu.RLock(), which waits while
\* the write lock is held.
CacheRLock(p) ==
    /\ cachePc[p] \in {"idle", "done"}
    /\ nCalls < MaxCalls
    /\ writer = 0
    /\ readers' = readers \cup {p}
    /\ cachePc' = [cachePc EXCEPT ![p] = "rlocked"]
    /\ nCalls' = nCalls + 1
    /\ UNCHANGED <<cnow, cacheExpiry, cachedInfo, writer, cacheRet, fetches>>
    /\ UNCHANGED notCacheVars

\* host_collector.go:45-50: the check under the read lock; on a hit the
\* cached value is returned, on a miss the caller goes on to c.mu.Lock();
\* RUnlock either way.
CacheRead(p) ==
    /\ cachePc[p] = "rlocked"
    /\ readers' = readers \ {p}
    /\ IF CacheValid(cnow, cacheExpiry, cachedInfo)
       THEN /\ cacheRet' = [cacheRet EXCEPT ![p] =
                               [val |-> cachedInfo, by |-> "read", at |-> cnow]]
            /\ cachePc' = [cachePc EXCEPT ![p] = "done"]
       ELSE /\ cachePc' = [cachePc EXCEPT ![p] = "miss"]
            /\ UNCHANGED cacheRet
    /\ UNCHANGED <<cnow, cacheExpiry, cachedInfo, writer, nCalls, fetches>>
    /\ UNCHANGED notCacheVars

\* host_collector.go:54: c.mu.Lock(), which waits for every holder.
CacheLock(p) ==
    /\ cachePc[p] = "miss"
    /\ writer = 0
    /\ readers = {}
    /\ writer' = p
    /\ cachePc' = [cachePc EXCEPT ![p] = "locked"]
    /\ UNCHANGED <<cnow, cacheExpiry, cachedInfo, readers, cacheRet, nCalls, fetches>>
    /\ UNCHANGED notCacheVars

\* host_collector.go:57-60: the double check; on a hit the cached value is
\* returned and the deferred Unlock runs.
CacheRecheck(p) ==
    /\ cachePc[p] = "locked"
    /\ IF DoubleCheck(cnow, cacheExpiry, cachedInfo)
       THEN /\ cacheRet' = [cacheRet EXCEPT ![p] =
                               [val |-> cachedInfo, by |-> "recheck", at |-> cnow]]
            /\ cachePc' = [cachePc EXCEPT ![p] = "done"]
            /\ writer' = 0
       ELSE /\ cachePc' = [cachePc EXCEPT ![p] = "fetch"]
            /\ UNCHANGED <<cacheRet, writer>>
    /\ UNCHANGED <<cnow, cacheExpiry, cachedInfo, readers, nCalls, fetches>>
    /\ UNCHANGED notCacheVars

\* host_collector.go:62-80: host.Info() succeeds; the value and the new
\* expiry are stored, the value returned, the write lock released.
CacheFetchOk(p) ==
    /\ cachePc[p] = "fetch"
    /\ LET id == Len(fetches) + 1
       IN  /\ cachedInfo' = id
           /\ cacheExpiry' = cnow + cacheDuration
           /\ fetches' = Append(fetches, [ok |-> TRUE, at |-> cnow,
                                          exp |-> cnow + cacheDuration])
           /\ cacheRet' = [cacheRet EXCEPT ![p] =
                               [val |-> id, by |-> "fetch", at |-> cnow]]
    /\ writer' = 0
    /\ cachePc' = [cachePc EXCEPT ![p] = "done"]
    /\ UNCHANGED <<cnow, readers, nCalls>>
    /\ UNCHANGED notCacheVars

\* host_collector.go:62-66: host.Info() fails; the error is returned and the
\* cache left as it was.
CacheFetchFail(p) ==
    /\ cachePc[p] = "fetch"
    /\ fetches' = Append(fetches, [ok |-> FALSE, at |-> cnow, exp |-> 0])
    /\ cacheRet' = [cacheRet EXCEPT ![p] = [val |-> 0, by |-> "error", at |-> cnow]]
    /\ writer' = 0
    /\ cachePc' = [cachePc EXCEPT ![p] = "done"]
    /\ UNCHANGED <<cnow, cacheExpiry, cachedInfo, readers, nCalls>>
    /\ UNCHANGED notCacheVars

NextCache ==
    \/ CacheClock
    \/ \E p \in Callers : CacheRLock(p)
    \/ \E p \in Callers : CacheRead(p)
    \/ \E p \in Callers : CacheLock(p)
    \/ \E p \in Callers : CacheRecheck(p)
    \/ \E p \in Callers : CacheFetchOk(p)
    \/ \E p \in Callers : CacheFetchFail(p)

(***************************************************************************)
(* One call of connectWithRetry, with its jitter (cmd/agent)               *)
(***************************************************************************)

MsPerSecond == 1000

\* backoff.Config.Jitter = 0.2, in percent.
jitterPercent == 20

\* rand.Float64(), in [0, 1), in percent.
RandPercents == {0, 25, 50, 75, 99}

\* part_021:253-256: delay * (1 + Jitter * (2 * rand - 1)), cut to MaxDelay
\* when above it; in ms, for the delay d in seconds and rand r in percent.
\* A negative delay stays negative: the factor lies in [0.8, 1.2).
jitterOf(d, r) ==
    LET j == (d * MsPerSecond * (100 * 100 + jitterPercent * (2 * r - 100)))
                 \div (100 * 100)
    IN  IF j > maxBackoffDelay * MsPerSecond THEN maxBackoffDelay * MsPerSecond
        ELSE j

InitConn ==
    /\ cwPc = "open"
    /\ cwCtx = FALSE
    /\ cwCount = 0
    /\ cwDelay = 0
    /\ cwSleep = 0
    /\ cwRet = "none"

\* The signal goroutine cancels ctx.
ConnCancel ==
    /\ ~cwCtx
    /\ cwCtx' = TRUE
    /\ UNCHANGED <<cwPc, cwCount, cwDelay, cwSleep, cwRet>>
    /\ UNCHANGED notConnVars

\* part_021:241-244: client.StreamMetrics(ctx) succeeds; the stream is
\* returned.
ConnOpenOk ==
    /\ cwPc = "open"
    /\ ~cwCtx
    /\ cwPc' = "returned"
    /\ cwRet' = "stream"
    /\ UNCHANGED <<cwCtx, cwCount, cwDelay, cwSleep>>
    /\ UNCHANGED notConnVars

\* part_021:241-262: the open fails; retryCount++, the delay and its jitter
\* (with rand r) are computed.
ConnOpenFail(r) ==
    /\ cwPc = "open"
    /\ cwCount < MaxAttempts
    /\ cwCount' = cwCount + 1
    /\ cwDelay' = connectDelay(cwCount + 1)
    /\ cwSleep' = jitterOf(connectDelay(cwCount + 1), r)
    /\ cwPc' = "sleep"
    /\ UNCHANGED <<cwCtx, cwRet>>
    /\ UNCHANGED notConnVars

\* part_021:263-268, case <-time.After(jitter): the next attempt.
ConnSleepElapsed ==
    /\ cwPc = "sleep"
    /\ cwPc' = "open"
    /\ UNCHANGED <<cwCtx, cwCount, cwDelay, cwSleep, cwRet>>
    /\ UNCHANGED notConnVars

\* part_021:263-265, case <-ctx.Done(): return nil, ctx.Err().
ConnSleepCtxDone ==
    /\ cwPc = "sleep"
    /\ cwCtx
    /\ cwPc' = "returned"
    /\ cwRet' = "context canceled"
    /\ UNCHANGED <<cwCtx, cwCount, cwDelay, cwSleep>>
    /\ UNCHANGED notConnVars

NextConn ==
    \/ ConnCancel
    \/ ConnOpenOk
    \/ \E r \in RandPercents : ConnOpenFail(r)
    \/ ConnSleepElapsed
    \/ ConnSleepCtxDone

(***************************************************************************)
(* CPUCollector.Collect pass by pass: the baseline, the warm-up sleep and  *)
(* the self-call (agent/collector)                                         *)
(***************************************************************************)

NoCall == [call |-> 0, samples |-> 0, sleeps |-> 0, depth |-> 0, warm |-> FALSE,
           st |-> [err |-> FALSE, info |-> 0, physical |-> 0]]

\* NewCPUCollector: the zero lastCollectTime, no counters.
InitWarm ==
    /\ ccPc = "idle"
    /\ ccDepth = 0
    /\ ccNow = 1
    /\ ccLast = [total |-> 0, cores |-> 0, at |-> 0]
    /\ ccTaken = 0
    /\ ccCur = NoCall
    /\ ccRes = <<>>

\* A mutant of NeedsBaseline: every pass takes itself for the first.
NeedsBaseline_Always(last) == TRUE

\* part_009:91: c.lastCollectTime.IsZero().
NeedsBaseline(last) == last.at = 0

\* The outermost Collect returns (every frame returns what the inner one
\* returned): kind and, for a list, the sample it was computed from.
CollectReturns(kind, sample, at, samples) ==
    /\ ccRes' = <<[call |-> ccCur.call, kind |-> kind, sample |-> sample,
                   at |-> at, samples |-> samples,
                   sleeps |-> ccCur.sleeps, depth |-> ccCur.depth,
                   warm |-> ccCur.warm]>>
    /\ ccDepth' = 0
    /\ ccPc' = "idle"

\* The metrics loop calls Collect, some time after the call before.
WarmCall ==
    /\ ccPc = "idle"
    /\ ccCur.call < MaxCollects
    /\ ccCur' = [call |-> ccCur.call + 1, samples |-> 0, sleeps |-> 0,
                 depth |-> 1, warm |-> ~NeedsBaseline(ccLast),
                 st |-> NoCall.st]
    /\ ccDepth' = 1
    /\ ccNow' = ccNow + 1
    /\ ccPc' = "static"
    /\ UNCHANGED <<ccLast, ccTaken, ccRes>>
    /\ UNCHANGED notWarmVars

\* part_009:79-82: getCachedStaticData is called by this pass, the inner
\* one as well as the outer one, and answers st: the cached values, or what
\* a fetch gives when the cache is not valid any more; its error is
\* returned.
WarmStatic(st) ==
    /\ ccPc = "static"
    /\ ccCur' = [ccCur EXCEPT !.st = st]
    /\ IF st.err
       THEN CollectReturns("error", 0, 0, ccCur.samples)
       ELSE /\ ccPc' = "sample"
            /\ UNCHANGED <<ccDepth, ccRes>>
    /\ UNCHANGED <<ccNow, ccLast, ccTaken>>
    /\ UNCHANGED notWarmVars

\* part_009:84-134: cpu.Times(false) is called and now taken.  On an error
\* or no entry, nil and err are returned.  Without a stored sample the pass
\* stores this one (with the per-core counters, whose error is dropped) and
\* goes to sleep.  Else the percentages are computed against the stored
\* sample, this sample is stored and the list of buildCPUMetrics returned.
WarmSample(t) ==
    /\ ccPc = "sample"
    /\ ccTaken' = ccTaken + 1
    /\ ccCur' = [ccCur EXCEPT !.samples = @ + 1]
    /\ LET id == ccTaken + 1
           sampled == [total |-> id,
                       cores |-> IF t.timesErr THEN 0 ELSE id,
                       at |-> ccNow]
       IN  IF t.totalErr \/ t.total = 0
           THEN /\ CollectReturns(IF t.totalErr THEN "error" ELSE "nil", 0, 0,
                                  ccCur.samples + 1)
                /\ UNCHANGED ccLast
           ELSE IF NeedsBaseline(ccLast)
           THEN /\ ccLast' = sampled
                /\ ccPc' = "sleep"
                /\ UNCHANGED <<ccDepth, ccRes>>
           ELSE /\ ccLast' = sampled
                /\ IF buildCPUMetrics(ccCur.st.info,
                                      IF t.timesErr THEN 0 ELSE t.times,
                                      ccCur.st.physical).kind = "panic"
                   THEN /\ ccPc' = "crashed"
                        /\ UNCHANGED <<ccDepth, ccRes>>
                   ELSE CollectReturns("ok", id, ccNow, ccCur.samples + 1)
    /\ UNCHANGED ccNow
    /\ UNCHANGED notWarmVars

\* part_009:98-100: time.Sleep(200 ms) is over; return c.Collect().
WarmSelfCall ==
    /\ ccPc = "sleep"
    /\ ccNow' = ccNow + 1
    /\ ccDepth' = ccDepth + 1
    /\ ccCur' = [ccCur EXCEPT !.sleeps = @ + 1, !.depth = ccDepth + 1]
    /\ ccPc' = "static"
    /\ UNCHANGED <<ccLast, ccTaken, ccRes>>
    /\ UNCHANGED notWarmVars

NextWarm ==
    \/ WarmCall
    \/ \E st \in StaticInputs : WarmStatic(st)
    \/ \E t \in TimesInputs : WarmSample(t)
    \/ WarmSelfCall

(***************************************************************************)
(* calculateOptimalWorkers as a function of the container count            *)
(***************************************************************************)

\* The container counts tried.
ContainerCounts == (0 - MaxCount)..MaxCount

\* calculateOptimalWorkers(n) is called.
WorkersCall(n) ==
    /\ owCall' = <<[n |-> n, workers |-> calculateOptimalWorkers(n)]>>
    /\ UNCHANGED notWorkersVars

NextWorkers == \E n \in ContainerCounts : WorkersCall(n)

(***************************************************************************)
(* A payload with an absent host descriptor or RAM sample on the server:   *)
(* the stream handler's log line and the stores' Format                    *)
(***************************************************************************)

\* A payload as decoded: Host and Ram are pointers, nil when the message
\* has no such field; n samples in each repeated family; dcpu, dram and
\* dnet say whether the docker samples carry their cpu_metrics, ram_metrics
\* and network_metrics (pointers too: converter/metrics.go:103-106).
PayloadShapes ==
    [host : BOOLEAN, ram : BOOLEAN, n : 0..MaxSamples,
     dcpu : BOOLEAN, dram : BOOLEAN, dnet : BOOLEAN]

InitPay ==
    /\ pvPc = "recv"
    /\ pvPay = [host |-> TRUE, ram |-> TRUE, n |-> 0,
                dcpu |-> TRUE, dram |-> TRUE, dnet |-> TRUE]
    /\ pvFormatted = {}
    /\ pvAlive = TRUE
    /\ pvServed = 0

\* part_017:72-73 (handler.go:99-100): the arguments of the Debug call are
\* evaluated; metrics.Host.Hostname reads through a nil pointer when the
\* host descriptor is absent.
LogPanics(pay) == ~pay.host

\* XStore.Format: RAMStore reads metrics.Host.Hostname and metrics.Ram.*
\* unconditionally; the other stores read metrics.Host.Hostname once per
\* sample of their family; DockerStore also reads, for every docker
\* sample, docker.CpuMetrics.UsagePercent, docker.RamMetrics.UsedPercent
\* and docker.NetworkMetrics.BytesSent (docker_store.go:33, 42, 51).
RAMStoreFormatPanics(pay) == ~pay.host \/ ~pay.ram

DockerStoreFormatPanics(pay) ==
    pay.n > 0 /\ (~pay.host \/ ~pay.dcpu \/ ~pay.dram \/ ~pay.dnet)

FormatPanics(s, pay) ==
    IF s = "ram" THEN RAMStoreFormatPanics(pay)
    ELSE IF s = "docker" THEN DockerStoreFormatPanics(pay)
    ELSE ~pay.host /\ pay.n > 0

\* A panic that nothing recovers (no recover in the handlers, the stores or
\* the interceptors; grpc.NewServer() without options) ends the process.
Crash ==
    /\ pvAlive' = FALSE
    /\ pvPc' = "crashed"

\* stream.Recv() returns a payload.
PayRecv(pay) ==
    /\ pvPc = "recv"
    /\ pvServed < MaxPayloads
    /\ pvPay' = pay
    /\ pvFormatted' = {}
    /\ pvPc' = "log"
    /\ UNCHANGED <<pvAlive, pvServed>>
    /\ UNCHANGED notPayVars

\* The handler logs the payload and calls StoreAllMetrics.
PayLog ==
    /\ pvPc = "log"
    /\ IF LogPanics(pvPay) THEN Crash
       ELSE /\ pvPc' = "store"
            /\ UNCHANGED pvAlive
    /\ UNCHANGED <<pvPay, pvFormatted, pvServed>>
    /\ UNCHANGED notPayVars

\* The goroutine of store s calls s.Format(metrics, timestamp).
PayFormat(s) ==
    /\ pvPc = "store"
    /\ s \notin pvFormatted
    /\ IF FormatPanics(s, pvPay) THEN Crash /\ UNCHANGED pvFormatted
       ELSE /\ pvFormatted' = pvFormatted \cup {s}
            /\ UNCHANGED <<pvPc, pvAlive>>
    /\ UNCHANGED <<pvPay, pvServed>>
    /\ UNCHANGED notPayVars

\* StoreAllMetrics has returned; the acknowledgement is sent and the loop
\* goes round.
PayAck ==
    /\ pvPc = "store"
    /\ pvFormatted = Stores
    /\ pvServed' = pvServed + 1
    /\ pvPc' = "recv"
    /\ UNCHANGED <<pvPay, pvFormatted, pvAlive>>
    /\ UNCHANGED notPayVars

NextPay ==
    \/ \E pay \in PayloadShapes : PayRecv(pay)
    \/ PayLog
    \/ \E s \in Stores : PayFormat(s)
    \/ PayAck

Init ==
    /\ InitPay
    /\ owCall = <<>>
    /\ InitWarm
    /\ InitConn
    /\ InitCache
    /\ InitFan
    /\ InitPoll
    /\ InitDock
    /\ InitAgent
    /\ InitStore
    /\ InitServer
    /\ InitWatch
    /\ InitTick
    /\ InitColl

NextAgent ==
    \/ AgentCancel
    \/ HealthNext
    \/ MetricsNext

SpecAgent == Init /\ [][NextAgent]_vars

\* What the program's scheduling gives the agent's loops.  Code that waits
\* for nothing runs on: the collectors return (they take no context and are
\* bounded by their own timeouts), watchHealth's deferred function and the
\* statements after it run.  A call on a stream made with the agent's
\* context (StreamMetrics(ctx) at part_021:241, Watch(ctx) at
\* healthcheck.go:80) may wait for the server for ever while the context
\* lives, and fails once it is cancelled; the same holds for the opens.  A
\* select picks among its ready cases at random, so a ctx.Done() case that
\* is ready every time the select is reached is taken in the end.  Nothing
\* is assumed of the server, of the ticker or of the timers.
AgentFairness ==
    /\ WF_vars(Collect)
    /\ WF_vars(SetHealthyTrue \/ WatchDefer \/ HSetUnhealthy)
    /\ WF_vars(CtxDone(actx) /\ (ConnectFail \/ SendFail \/ RecvFail))
    /\ WF_vars(CtxDone(actx) /\ (WatchOpenFail \/ WatchRecvErr))
    /\ WF_vars(HSelectDone)
    /\ SF_vars(MCtxDone)
    /\ SF_vars(RetryCtxDone)
    /\ SF_vars(HBackoffDone)

\* The agent with at most MaxLiveCalls calls of watchHealth.
NextAgentLive ==
    \/ AgentCancel
    \/ HealthNext /\ (hpc' = "call" => Len(hslept) < MaxLiveCalls)
    \/ MetricsNext

SpecAgentLive == Init /\ [][NextAgentLive]_vars /\ AgentFairness

SpecStore == Init /\ [][NextStore]_vars

SpecServer == Init /\ [][NextServer]_vars

SpecWatch == Init /\ [][NextWatch]_vars

SpecTick == Init /\ [][NextTick]_vars

SpecCpuPct == Init /\ [][NextCpuPct]_vars

SpecImage == Init /\ [][NextImage]_vars

SpecCpuList == Init /\ [][NextCpuList]_vars

SpecPoll == Init /\ [][NextPoll]_vars

SpecFanOut == Init /\ [][NextFan]_vars

SpecCache == Init /\ [][NextCache]_vars

SpecConnect == Init /\ [][NextConn]_vars

SpecCpuWarm == Init /\ [][NextWarm]_vars

SpecWorkers == Init /\ [][NextWorkers]_vars

SpecPayload == Init /\ [][NextPay]_vars

\* The Go scheduler runs every goroutine that can take a step.
SpecDocker == Init /\ [][NextDocker]_vars /\ WF_vars(DockerRun)

(***************************************************************************)
(* Properties                                                              *)
(***************************************************************************)

\* C1: the agent's healthy flag is true only inside watchHealth, between the
\* store that follows a successful Watch open and the return of watchHealth
\* (whose deferred store runs after the Recv loop has ended): it is false
\* before the first successful open and false again once a stream's Recv has
\* failed and watchHealth has returned.
C1_HealthyOnlyWhileWatching ==
    /\ healthy => hpc \in {"recv", "deferred"}
    /\ healthy => watchOpens > 0

\* The flag is true on the second Watch stream, after a first one was lost.
C1_Witness == healthy /\ hpc = "recv" /\ watchOpens = 2

\* C2: a tick that read the flag as false neither connects, collects nor
\* sends: the tick loop is past its health check only when the flag read
\* true, and nothing is collected or sent before the first successful Watch
\* open.
C2_UnhealthyTickSkipped ==
    /\ mpc \in {"connect", "retrysleep", "collect", "send", "recv"} => isHealthy
    /\ (nCollected > 0 \/ nSent > 0 \/ nStreams > 0) => watchOpens > 0

\* A tick read the flag as false, and was skipped, after payloads were sent.
C2_Witness == mpc = "select" /\ ~isHealthy /\ ~healthy /\ nSent > 0

\* C3: StoreAllMetrics returns nil, whatever the stores' Store calls returned.
C3_StoreAllReturnsNil == fret \in {"pending", Nil}

\* StoreAllMetrics returned nil after the Store of all five stores failed.
C3_Witness == fret = Nil /\ logged = Cardinality(Stores) /\ spc = "ack"

\* C4 as claimed: a receive error is the only cause of a failure status.
C4_OnlyRecvErrorFails ==
    hret # Running => hret = "Internal: failed to receive metrics"

\* C4, amended: the handler ends a stream with a failure status because of a
\* receive error, a failed send of the acknowledgement, or the cancellation
\* of its context (by the client, or by the shutdown notifier); never because
\* of a sink failure.
C4_NoSinkFailureEndsStream ==
    hret \in {Running,
              "Internal: failed to receive metrics",
              "Internal: failed to send response",
              "Canceled: stream terminated"}

\* The stream ended on a failed acknowledgement send, after a fan-out in
\* which stores failed.
C4_Witness == hret = "Internal: failed to send response" /\ logged > 0

\* C5: one Store call issues at most 3 POSTs, and none after a POST that was
\* answered with 200 or 204.
C5_AtMostThreePosts ==
    /\ Len(posts) <= 3
    /\ \A i \in 1..(Len(posts) - 1) : posts[i] \notin {"200", "204"}

\* A Store call that issued its third POST, answered with success.
C5_Witness == stpc = "done" /\ Len(posts) = 3 /\ posts[3] = "204"

\* C6: a Store call with lines returns nil exactly when one of its POSTs was
\* answered with 200 or 204; otherwise it made 3 attempts and returns an
\* error wrapping the failure of the last one; the sleeps before attempts
\* 1, 2, 3 are 0, 500 and 1000 ms.
C6_StoreSucceedsIffOk ==
    /\ \A i \in 1..Len(slept) : slept[i] = <<0, 500, 1000>>[i]
    /\ Len(slept) = Len(posts)
    /\ (stpc = "done" /\ nLines > 0) =>
          /\ (sret = Nil) <=> (\E i \in 1..Len(posts) : posts[i] \in {"200", "204"})
          /\ sret # Nil =>
                /\ sret = "error"
                /\ Len(posts) = 3
                /\ sw.cause = posts[3]

\* 503, 503, 204: success on the third attempt.
C6_Witness ==
    /\ stpc = "done"
    /\ posts = <<"503", "503", "204">>
    /\ sret = Nil
    /\ slept = <<0, 500, 1000>>

IsAck(r) == r.status = "ok"
Acks == SelectSeq(out, IsAck)

\* C7: on one stream the fan-out of a payload starts only after the
\* acknowledgements of all payloads before it were sent; payloads reach the
\* fan-out in the order sent, and the acknowledgements are sent in that order.
C7_FanOutAfterAck ==
    /\ \A i \in 1..Len(fanned) : fanned[i] = i
    /\ \A i \in 1..Len(Acks) : Acks[i].payload = i
    /\ Len(Acks) <= Len(fanned)
    /\ Len(fanned) <= Len(Acks) + 1
    /\ spc \in {"store", "wait"} => Len(Acks) = cur.id - 1

\* The second payload waited in the stream while the first was fanned out.
C7_Witness ==
    /\ spc = "wait"
    /\ fanned = <<1, 2>>
    /\ Len(Acks) = 1
    /\ nClientSent = 2

\* C8: once Stop has returned after the shutdown notification, the session
\* map is empty.
C8_MapEmptyAfterStop == grpcState = "stopped" => clients = {}

\* Stop returned; several sessions were connected when shutdown began.
C8_Witness == grpcState = "stopped" /\ Cardinality(atShutdown) >= 2

\* C9 as claimed: every session registered when shutdown is signalled gets
\* exactly one NOT_SERVING before its handler returns.
C9_ExactlyOneNotServing ==
    \A c \in atShutdown : wpc[c] = "done" => nsCalls[c] = 1

\* C9, amended: no Watch call sends NOT_SERVING more than once; a session
\* registered when shutdown is signalled whose stream context is not
\* cancelled gets SERVING and then exactly one NOT_SERVING before its handler
\* returns (one whose client is gone may get none).
C9_NotServingOnceIfConnected ==
    \A c \in Sessions :
        /\ nsCalls[c] <= 1
        /\ (c \in atShutdown /\ wpc[c] = "done" /\ ~cctx[c]) =>
              /\ nsCalls[c] = 1
              /\ wsent[c] = <<"SERVING", "NOT_SERVING">>

\* Of two sessions registered at shutdown, the connected one got its
\* NOT_SERVING and the one whose client had gone got none.
C9_Witness ==
    \E c, d \in atShutdown :
        /\ wpc[c] = "done" /\ ~cctx[c] /\ nsCalls[c] = 1
        /\ wpc[d] = "done" /\ cctx[d] /\ nsCalls[d] = 0

\* C10: the session map holds exactly the ids of the Watch calls that have
\* registered and not returned; a call is in the map when its SERVING is
\* sent and until its deferred removal.
C10_MapIsLiveSessions ==
    /\ clients = {c \in Sessions : wpc[c] \in {"registered", "waiting", "exiting"}}
    /\ \A c \in Sessions : (wsent[c] # <<>> /\ wpc[c] # "done") => c \in clients

\* Three calls have left by the three exit paths, and the map is empty.
C10_Witness ==
    /\ clients = {}
    /\ \E c, d, e \in Sessions :
          /\ wpc[c] = "done" /\ wret[c] = "send error"
          /\ wpc[d] = "done" /\ wret[d] = "context canceled"
          /\ wpc[e] = "done" /\ wret[e] = Nil

RECURSIVE Pow2(_)
Pow2(n) == IF n = 0 THEN 1 ELSE 2 * Pow2(n - 1)

MinOf(a, b) == IF a < b THEN a ELSE b

\* C11: the backoff sleeps of consecutive failed Watch opens are 2, 4, 8, 16,
\* 30, 30, ... seconds: the first sleep is 2 s, the sleep after a further
\* failed open is twice the one before, capped at 30 s, and the delay is
\* always within [2 s, 30 s].
C11_BackoffDoubles ==
    /\ backoffDelay \in 2..30
    /\ \A i \in 1..Len(hslept) :
          /\ hslept[i].d \in 2..30
          /\ i = 1 => hslept[i].d = 2
          /\ (i > 1 /\ hslept[i].kind = "failed" /\ hslept[i - 1].kind = "failed")
                => hslept[i].d = MinOf(2 * hslept[i - 1].d, 30)
          /\ hslept[i].opens = 0 => hslept[i].d = MinOf(Pow2(i), 30)

\* Six failed opens in a row from the start: 2, 4, 8, 16, 30, 30.
C11_Witness ==
    /\ watchOpens = 0
    /\ Len(hslept) = 6
    /\ [i \in 1..6 |-> hslept[i].d] = <<2, 4, 8, 16, 30, 30>>

\* C12: the sleep after the first failed open that follows a successful open
\* is the 2 s base again.
C12_ResetAfterSuccess ==
    \A i \in 1..Len(hslept) :
        ( /\ hslept[i].kind = "failed"
          /\ hslept[i].opens > 0
          /\ \A j \in 1..(i - 1) :
                hslept[j].kind = "failed" => hslept[j].opens < hslept[i].opens )
        => hslept[i].d = 2

Attempted == nStreams' # nStreams \/ retryCount' > retryCount

\* C13: a payload whose Send or Recv failed is not sent again: the payloads
\* handed to Send are all different, the send side of a stream on which a
\* Send or Recv failed is closed and the stream is not held any more, and
\* every later payload goes out on a stream opened after it.
C13_FailedPayloadNotResent ==
    /\ \A i, j \in 1..Len(sends) :
          i < j => /\ sends[i].payload < sends[j].payload
                   /\ ~sends[i].ok => sends[j].stream > sends[i].stream
    /\ \A i \in 1..Len(sends) :
          ~sends[i].ok => /\ sends[i].stream \in closed
                          /\ stream # sends[i].stream

\* The first payload failed on stream 1; the second payload went out on
\* stream 2.
C13_Witness ==
    /\ Len(sends) = 2
    /\ sends[1].payload = 1 /\ sends[1].stream = 1 /\ ~sends[1].ok
    /\ sends[2].payload = 2 /\ sends[2].stream = 2

\* C14 as claimed: no StreamMetrics open attempt is made while the healthy
\* flag is false.
C14_NoOpenWhileUnhealthy == [][Attempted => healthy]_vars

\* C14, amended: a StreamMetrics open is attempted only by connectWithRetry
\* in a tick that read the flag as true; a tick that read false attempts
\* none (connectWithRetry itself does not read the flag again).
C14_OpenOnlyAfterHealthyRead ==
    [][Attempted => (mpc = "connect" /\ isHealthy /\ lastHealthy)]_vars

\* connectWithRetry is in its second retry while the flag is false.
C14_Witness ==
    mpc = "retrysleep" /\ retryCount = 2 /\ ~healthy /\ isHealthy

\* C15 as claimed: no payload is sent on a stream that was held when the
\* flag went from true to false.
C15_NoSendAfterDrop == \A i \in 1..Len(sends) : ~sends[i].dropped

\* C15, amended: when a tick reads the flag as false after a tick that read
\* true, the stream held is closed and dropped in that tick: no stream is
\* held while the last read was false, a closed stream is not held, and no
\* payload is sent on a closed stream.
C15_ClosedWhenTickReadsUnhealthy ==
    /\ ~lastHealthy => stream = 0
    /\ mpc # "returned" => stream \notin closed
    /\ \A i \in 1..Len(sends) : ~sends[i].onClosed

\* Stream 1 carried a payload and was closed by a tick that read unhealthy.
C15_Witness ==
    /\ mpc = "select" /\ ~lastHealthy /\ stream = 0
    /\ closed = {1}
    /\ Len(sends) = 1 /\ sends[1].stream = 1 /\ sends[1].ok

\* C16: runMetricsCollection returns only with ctx.Err() of the cancelled
\* shutdown context; a failed Send or Recv and the close of the stream that
\* follows leave it running.
C16_ReturnsOnlyOnCancel ==
    /\ mpc = "returned" => (actx /\ mret = "context canceled")
    /\ mret # "none" => mpc = "returned"

\* runMetricsCollection returned on cancellation after a send had failed.
C16_Witness ==
    /\ mpc = "returned"
    /\ \E i \in 1..Len(sends) : ~sends[i].ok

ErrSet == {errs[i] : i \in 1..Len(errs)}

Completed(s) == outc[s] # "none"

\* C17 as claimed: the error of every source whose Collect failed is in the
\* tick's error list.
C17_EveryFailureRecorded ==
    \A s \in Sources : outc[s] = "fail" => s \in ErrSet

\* C17, amended: a failed Collect does not abort the tick.  The failure of
\* ram, host, network, cpu or disk is in the error list once, that of docker
\* is not in it; the slot of a failed source holds its zero value; the
\* payload is handed to Send after every source used has completed, with the
\* data of the sources that succeeded; and the call returns only after Send.
C17_FailureDoesNotAbortTick ==
    /\ \A s \in Sources :
          /\ s \in ErrSet <=> (outc[s] = "fail" /\ s # "docker")
          /\ outc[s] = "fail" => slots[s] = "zero"
          /\ outc[s] = "ok" => slots[s] = "data"
    /\ Len(errs) = Cardinality(ErrSet)
    /\ tpc \in {"send", "recv", "done"} =>
          \A s \in Sources : Completed(s) \/ (s = "docker" /\ ~hasDocker)
    /\ Len(tsent) <= 1
    /\ tsent # <<>> =>
          /\ tsent[1] = slots
          /\ \A s \in Sources : tsent[1][s] = "data" <=> outc[s] = "ok"
    /\ tpc = "done" => (tsent # <<>> /\ tret # "collect error")

\* The Collect of ram and of docker failed; the payload was sent with the
\* four other families and acknowledged.
C17_Witness ==
    /\ tpc = "done" /\ tret = Nil
    /\ errs = <<"ram">>
    /\ outc["docker"] = "fail"
    /\ tsent = <<[s \in Sources |->
                    IF s \in {"ram", "docker"} THEN "zero" ELSE "data"]>>

\* C18: the container CPU percent is in [0, 100], and it is exactly 0 when
\* the system counter did not grow (current <= previous) or the cpu counter
\* went down (current < previous).
C18_PercentInRangeZeroOnBadDelta ==
    \A i \in 1..Len(pctCall) :
        LET c == pctCall[i]
        IN  /\ c.out.num >= 0
            /\ c.out.exp = 0 => c.out.num <= 100 * c.out.den
            /\ (c.curS - c.preS <= 0 \/ c.curT - c.preT < 0) => c.out.num = 0

\* C19: parseImageName splits at the rightmost colon: with a colon in the
\* reference, name, ":" and tag joined give the reference back and the tag
\* has no colon; without one the name is the reference and the tag "latest";
\* "a:b:c" gives "a:b" and "c".
C19_SplitsAtRightmostColon ==
    \A i \in 1..Len(imgCall) :
        LET c == imgCall[i]
            hasColon == \E k \in 1..Len(c.image) : c.image[k] = ":"
        IN  /\ hasColon => /\ c.name \o <<":">> \o c.tag = c.image
                           /\ \A k \in 1..Len(c.tag) : c.tag[k] # ":"
            /\ ~hasColon => (c.name = c.image /\ c.tag = Latest)
            /\ c.image = <<"a", ":", "b", ":", "c">> =>
                  (c.name = <<"a", ":", "b">> /\ c.tag = <<"c">>)

\* "a:b:c" was parsed.
C19_Witness ==
    imgCall = <<[image |-> <<"a", ":", "b", ":", "c">>,
                 name |-> <<"a", ":", "b">>, tag |-> <<"c">>]>>

\* The samples of list l with the total flag set.
Totals(l) == {i \in 1..Len(l) : l[i].isTotal}

\* The per-core samples of list l carry the ids 1, 2, ..., k in that order.
PerCoreIdsAscend(l) ==
    LET pc == SelectSeq(l, LAMBDA m : ~m.isTotal)
    IN  \A i \in 1..Len(pc) : pc[i].coreId = i

\* C20: for every combination of physical core count and number of per-core
\* timing entries Collect yields its list (it does not end the process), and
\* every CPU list put in a payload has exactly one total sample and per-core
\* samples that carry the ids 1, 2, ..., k in order.
C20_EveryListHasOneTotal ==
    /\ \A i \in 1..Len(cpuCall) : cpuCall[i].kind # "panic"
    /\ \A p \in 1..Len(payloadCpu) :
          /\ Cardinality(Totals(payloadCpu[p])) = 1
          /\ PerCoreIdsAscend(payloadCpu[p])

\* stream.Recv() of the handler is blocked: nothing is in flight, the client
\* has not closed its send side and the stream's context is not done.  Only
\* the client (a message, a close, a cancel) can end the wait.
HandlerNeedsClient ==
    spc = "recv" /\ inflight = <<>> /\ ~clientClosed /\ ~strmCtx

\* C21: after the shutdown signal the handler sends one final "shutdown"
\* response and returns without needing anything from the client: a
\* "shutdown" response is the last of the stream, at most one is sent, and
\* once the notifier has sent it and cancelled, the handler is not left
\* waiting for the client.
C21_ShutdownIsFinalAndReturns ==
    /\ \A i \in 1..Len(out) : out[i].status = "shutdown" => i = Len(out)
    /\ (mctx /\ npc = "done" /\ hcancel) => ~HandlerNeedsClient

\* C22: Stop is bounded by the caller's context: once the ctx has expired
\* while Stop waits for the handlers, Stop can return, also when some
\* handler has not returned.
C22_StopBoundedByCtx ==
    (grpcState = "stopping" /\ stopCtx) => ENABLED StopReturns

\* C23: the responses of a Watch stream are, in order, one SERVING on open,
\* nothing while the stream is held, then at most one NOT_SERVING, sent only
\* on server shutdown and last: the Watch call returns after it.
C23_ServingThenAtMostOneNotServing ==
    \A c \in Sessions :
        /\ wsent[c] \in {<<>>, <<"SERVING">>, <<"SERVING", "NOT_SERVING">>}
        /\ wpc[c] = "waiting" => wsent[c] = <<"SERVING">>
        /\ Len(wsent[c]) = 2 => (wctx /\ wret[c] = Nil
                                 /\ wpc[c] \in {"exiting", "done"})

\* A held stream was told NOT_SERVING at shutdown while another stream, whose
\* client had gone, got SERVING only.
C23_Witness ==
    \E c, d \in Sessions :
        /\ wsent[c] = <<"SERVING", "NOT_SERVING">> /\ wpc[c] = "done"
        /\ wsent[d] = <<"SERVING">> /\ wpc[d] = "done"

\* C24: once the agent's context is cancelled the metrics collection loop
\* returns, and with it the stream-open retry loop it may be in (mpc is then
\* neither "connect" nor "retrysleep"), and the health watch loop returns,
\* from whatever state the cancellation finds them in: waiting for a tick,
\* in a retry or backoff sleep, in a stream open, in Send or in Recv with a
\* server that never answers.
C24_LoopsReturnAfterCancel ==
    /\ actx ~> (mpc = "returned")
    /\ actx ~> (hpc = "returned")

\* Both loops have returned after the cancellation; the tick loop had opened
\* its second stream and closed a stream, the health loop had opened a watch
\* stream.
C24_Witness ==
    /\ actx
    /\ mpc = "returned" /\ mret = "context canceled"
    /\ hpc = "returned"
    /\ nStreams = 2 /\ closed # {}
    /\ watchOpens > 0

\* C25: Store called with no lines issues no POST (and no sleep) and returns
\* success.
C25_EmptyStoreIsNoOp ==
    (stpc # "idle" /\ nLines = 0) =>
        /\ posts = <<>>
        /\ slept = <<>>
        /\ stpc \in {"entry", "done"}
        /\ stpc = "done" => sret = Nil

\* Store was called with no lines and has returned nil.
C25_Witness == stpc = "done" /\ nLines = 0 /\ sret = Nil /\ posts = <<>>

\* The containers whose result carried no error.
Succeeded == {produced[i].id : i \in {j \in 1..Len(produced) : produced[j].ok}}

\* C26: when the container list succeeds Collect returns no error and
\* exactly one sample for each container whose stats collection succeeded;
\* a container whose collection failed or timed out is dropped and counted
\* (samples + failures = listed containers); Collect returns an error only
\* when the list failed, and the orchestrator does not record the source's
\* error.
C26_OneSamplePerSuccess ==
    /\ dret = "error" => (dN = 0 /\ produced = <<>>)
    /\ (dpc = "done" /\ dret = Nil) =>
          /\ {dmetrics[i] : i \in 1..Len(dmetrics)} = Succeeded
          /\ Len(dmetrics) = Cardinality(Succeeded)
          /\ Len(dmetrics) + errorCount = dN
    /\ ~RecordsError("docker")

\* Four containers were listed, one failed: three samples are returned.
C26_Witness ==
    /\ dpc = "done" /\ dret = Nil
    /\ dN = 4 /\ Len(dmetrics) = 3 /\ errorCount = 1

\* C30: Collect terminates for every number of listed containers and the
\* worker count chosen for it: no send on jobs or results ever blocks, every
\* job yields exactly one result, also when taken after the context expired,
\* results is closed once, after every worker has exited and all results
\* were sent, and Collect returns.
C30_CollectTerminates ==
    /\ [](/\ (dpc = "push" /\ pushed < dN) => Len(jobs) < dN
          /\ \A w \in WorkerIds :
                 wst[w] \in {"got", "processing"} => Len(resultsCh) < dN
          /\ Len(produced) <= dN
          /\ nCloses <= 1
          /\ nCloses = 1 => /\ exitedAtClose = Workers
                            /\ jobs = <<>>
                            /\ {produced[i].id : i \in 1..Len(produced)} = 1..dN
                            /\ Len(produced) = dN
          /\ (dpc = "done" /\ dN > 0) => (nCloses = 1 /\ resultsCh = <<>>))
    /\ (dpc = "spawn") ~> (dpc = "done")

\* Four containers, two workers; the context expired on the way: some jobs
\* were processed, the others taken after the expiry; Collect has returned.
C30_Witness ==
    /\ dpc = "done" /\ dN = 4 /\ nCloses = 1
    /\ \E i, j \in 1..Len(produced) :
          i < j /\ produced[i].late /\ ~produced[j].late
    /\ Len(produced) = 4

\* C27: within one connectWithRetry call, after the n-th consecutive failed
\* open the delay before jitter is min(cap, base * n * multiplier), that is
\* min(60 s, 2 n s).
C27_DelayIsLinearCapped ==
    retryCount > 0 =>
        rdelay = MinOf(maxBackoffDelay,
                       connectBaseDelay * retryCount * backoffMultiplier)

\* C28: IsHealthy() of the HTTP-polling service is false before the first
\* check, and after a check it is true exactly when the most recent check
\* was answered with HTTP 200: a transport error or any other status makes
\* it false.
C28_HealthyIffLastCheckOk ==
    /\ lastCheck = (Len(stored) > 0 /\ lastResp = "200")
    /\ \A i \in 1..Len(seen) :
           seen[i].ret = (seen[i].n > 0 /\ seen[i].resp = "200")

\* IsHealthy gave false after a check that was answered with a status other
\* than 200, although an earlier check had stored true.
C28_Witness ==
    /\ Len(seen) = 1
    /\ ~seen[1].ret
    /\ seen[1].n = Len(stored)
    /\ seen[1].n >= 2
    /\ seen[1].resp \in {"204", "500", "503"}
    /\ stored[seen[1].n - 1]

\* The operations called on store s so far, in order.
OpsOn(s) == [i \in 1..Len(fcalls[s]) |-> fcalls[s][i].op]

\* Timestamp ts is the payload's time in whole ms: ts ms have passed at
\* ns, ts + 1 have not.
IsMsOf(ts, ns) == ts * NanosPerMilli <= ns /\ ns < (ts + 1) * NanosPerMilli

\* C29: for a payload, StoreAllMetrics calls Format and then Store exactly
\* once on each of the five stores: Format on the payload, all five with the
\* same timestamp, the payload's in ms, and Store on the lines that store's
\* Format returned; a failing store neither prevents nor cancels a sibling
\* (every started goroutine can always take its next step, whatever the
\* others did); StoreAllMetrics returns only after all five goroutines have
\* completed; and no goroutine ever blocks on reporting its error.
C29_FanOutRunsEverySinkOnce ==
    /\ Len(StoreOrder) = 5 /\ Cardinality(Stores) = 5
    /\ \A s \in Stores :
        /\ OpsOn(s) \in {<<>>, <<"Format">>, <<"Format", "Store">>}
        /\ Len(fcalls[s]) >= 1 =>
              /\ fcalls[s][1].arg = fpay
              /\ IsMsOf(fcalls[s][1].ts, fpay.ns)
              /\ \A t \in Stores :
                    Len(fcalls[t]) >= 1 => fcalls[t][1].ts = fcalls[s][1].ts
        /\ Len(fcalls[s]) = 2 => fcalls[s][2].lines = flines[s]
        /\ task[s] \in {"none", "spawned"} => fcalls[s] = <<>>
        /\ task[s] = "formatted" => Len(fcalls[s]) = 1
        /\ task[s] \in {"sending", "done"} => Len(fcalls[s]) = 2
        /\ task[s] = "spawned" => ENABLED SinkFormat(s)
        /\ task[s] = "formatted" => \A rs \in AnswerSeqs : ENABLED SinkStore(s, rs)
        /\ task[s] = "sending" => ENABLED SinkReport(s)
        /\ fpc = "returned" => task[s] = "done"

\* StoreAllMetrics has returned after a call in which at least two stores
\* failed and reported their errors while the others succeeded, with a
\* timestamp that is not a whole number of ms and a CPU list of one sample
\* that is not the total: the CPU store was given its 4 lines.
C29_Witness ==
    /\ fpc = "returned"
    /\ fLogged >= 2
    /\ fLogged < Cardinality(Stores)
    /\ fpay.ns = 2500000 /\ fts = 2
    /\ fpay.totals = 0 /\ fpay.cores = 1
    /\ \A s \in Stores : Len(fcalls[s]) = 2
    /\ fcalls["cpu"][2].lines = 4

\* C31: with any number of concurrent getCachedStaticData callers on an
\* empty or expired cache, a successful fetch runs at most once per expiry
\* period (a fetch never starts before the expiry set by the successful
\* fetch before it); a caller that waited for the write lock and finds the
\* cache valid returns the stored value without fetching; and the cached
\* fields are read only by a holder of the lock (the check under the read
\* lock by a reader with no writer, the double check and the fetch by the
\* only writer with no reader).
C31_FetchOncePerExpiry ==
    /\ \A i, j \in 1..Len(fetches) :
           (i < j /\ fetches[i].ok) => fetches[j].at >= fetches[i].exp
    /\ \A p \in Callers :
        /\ cachePc[p] = "rlocked" => (p \in readers /\ writer = 0)
        /\ cachePc[p] \in {"locked", "fetch"} => (writer = p /\ readers = {})
        /\ cacheRet[p].by \in {"read", "recheck"} =>
               /\ cacheRet[p].val \in 1..Len(fetches)
               /\ fetches[cacheRet[p].val].ok
               /\ fetches[cacheRet[p].val].at <= cacheRet[p].at
               /\ cacheRet[p].at < fetches[cacheRet[p].val].exp

\* Two callers missed the empty cache together: one fetched, the other
\* waited for the write lock and returned the first one's value from the
\* double check; after the expiry a second fetch has run.
C31_Witness ==
    /\ Len(fetches) = 2
    /\ fetches[1].ok /\ fetches[2].ok
    /\ \E p, q \in Callers :
        /\ p # q
        /\ cacheRet[p] = [val |-> 1, by |-> "recheck", at |-> fetches[1].at]
        /\ cacheRet[q].by = "fetch" /\ cacheRet[q].val = 2

\* The streams the agent opened and has not called CloseSend on.
OpenStreams == (1..nStreams) \ closed

\* The step is a failed Send or a failed Recv on the stream held.
SendOrRecvFails ==
    /\ sends' # sends
    /\ Len(sends') > 0
    /\ ~sends'[Len(sends')].ok
    /\ sends'[Len(sends')].stream = stream

\* The step is a tick that reads the flag as false after a tick that read it
\* as true.
HealthLossObserved == lastHealthy /\ ~isHealthy' /\ ~lastHealthy'

\* C32: the agent holds at most one open metrics stream at any time (every
\* stream it opened and has not closed is the one it holds); StreamMetrics
\* is invoked only when no stream is held; and a held stream is kept, and
\* used for every tick's payload, until a send or receive on it fails or a
\* health loss is observed.
C32_OneStreamReused ==
    /\ [](OpenStreams \subseteq {stream})
    /\ [](\A i \in 1..Len(sends) : sends[i].stream # 0)
    /\ [][nStreams' # nStreams => (stream = 0 /\ stream' = nStreams')]_vars
    /\ [][(stream # 0 /\ stream' # stream) =>
            (stream' = 0 /\ (SendOrRecvFails \/ HealthLossObserved))]_vars
    /\ [][(sends' # sends /\ Len(sends') > Len(sends)) =>
            sends'[Len(sends')].stream = stream]_vars

\* Two payloads in a row were sent and acknowledged on the same stream,
\* which is still held.
C32_Witness ==
    /\ Len(sends) = 2
    /\ sends[1].ok /\ sends[2].ok
    /\ sends[1].stream = sends[2].stream
    /\ sends[1].payload # sends[2].payload
    /\ stream = sends[2].stream
    /\ mpc = "select"
    /\ nStreams = 1

\* C33: every sleep between two failed StreamMetrics opens in
\* connectWithRetry has a duration greater than 0 and at most the 60 s cap,
\* for every attempt count n >= 1.
C33_SleepPositiveAndCapped ==
    cwPc = "sleep" =>
        (cwSleep > 0 /\ cwSleep <= maxBackoffDelay * MsPerSecond)

\* At most one self-call; after a successful Collect the stored total
\* counters and timestamp are those of the sample returned.
DepthAndStoredSample ==
    /\ ccDepth <= 2
    /\ \A i \in 1..Len(ccRes) :
        /\ ccRes[i].depth <= 2
        /\ (ccRes[i].kind = "ok" /\ ccPc = "idle") =>
               (ccLast.total = ccRes[i].sample /\ ccLast.at = ccRes[i].at)

CeilDiv(n, d) == CHOOSE k \in 0..n : k * d >= n /\ (k = 0 \/ (k - 1) * d < n)

\* clamp(x, lo, hi)
Clamp(x, lo, hi) == IF x < lo THEN lo ELSE IF x > hi THEN hi ELSE x

\* C35: the worker count chosen for n containers is clamp(ceil(n/3), 1, 8)
\* for every n >= 0, and 1 for n <= 0; it is never 0 and never above 8.
C35_WorkersIsClampedCeil ==
    \A i \in 1..Len(owCall) :
        /\ owCall[i].n >= 0 =>
               owCall[i].workers = Clamp(CeilDiv(owCall[i].n, 3), 1, 8)
        /\ owCall[i].n <= 0 => owCall[i].workers = 1
        /\ owCall[i].workers >= 1
        /\ owCall[i].workers <= 8

\* 22 containers get 8 workers: the division rounds up, and the result is
\* the largest one below the cut.
C35_Witness == owCall = <<[n |-> 22, workers |-> 8]>>

\* C36: the response the agent reads with Recv directly after its k-th Send
\* (the k-th response on the stream) is the server's response to the k-th
\* payload, whatever the interleaving with a shutdown notification; the
\* server sends one response per payload.
C36_KthResponseAnswersKthPayload ==
    /\ Len(out) <= nClientSent
    /\ \A k \in 1..Len(out) :
           k <= nClientSent => out[k] = [status |-> "ok", payload |-> k]

\* The goroutines of one stream that are inside stream.Send.
InSend ==
    (IF spc = "acking" THEN {"handler"} ELSE {})
        \cup (IF npc = "sending" THEN {"notifier"} ELSE {})

\* C37: on one server-side metrics stream at most one goroutine is inside
\* stream.Send at any time: the shutdown notifier and the acknowledgement
\* loop never send concurrently.
C37_OneSenderAtATime == Cardinality(InSend) <= 1

\* C38: receiving a payload whose host descriptor or RAM sample is absent
\* never crashes the server: the payload is rejected or processed, and the
\* process stays up to serve other streams.
C38_AbsentPartsNeverCrash == pvAlive /\ pvPc # "crashed"

====
